---- MODULE Spec2Model ----
(***************************************************************************)
(* Connection lifecycle manager of the GALAX civic networking app.         *)
(*                                                                         *)
(*   server: src/GALAX_App_files/server/socketManager.ts (SocketManager)   *)
(*   client: src/GALAX_App_files/client/src/hooks/useSocket.ts (useSocket) *)
(*                                                                         *)
(* The server runs on a single-threaded event loop: every handler runs to  *)
(* its next `await` without interruption, so one action of this module is  *)
(* one such run (an event handler up to its first await, or the            *)
(* continuation of an await up to the next one).  A database call takes    *)
(* effect in the step that resumes the awaiting handler.                   *)
(*                                                                         *)
(* Time is counted in units of 15 minutes (the sweep interval).  The code   *)
(* reads a timestamp only to subtract it from Date.now() and compare the   *)
(* difference with a ceiling, so a timestamp is kept as that difference    *)
(* (0 when it is set to `new Date()`, one more after every Tick) and stops *)
(* growing once it exceeds every ceiling; a pending timeout is kept as the *)
(* time left until it fires.                                               *)
(***************************************************************************)
EXTENDS Integers, Sequences, FiniteSets, TLC

\* ------------------------------------------------------------------ bounds
NumSockets == 3        \* socket ids that are ever handed out
NumUsers == 1          \* rows of the users table: ids 1..NumUsers
MaxHandshakes == 2     \* authenticate handlers awaiting I/O at one time
MaxRetryTimers == 1    \* pending connection_retry timeouts of one socket
MaxEchoTimers == 5     \* the same, in EchoSpec
NumRooms == 1          \* help requests: ids 1..NumRooms
MaxMessages == 1       \* rows ever inserted into table messages
NumStamps == 1         \* distinct created_at values the database hands out
MaxPolls == 2          \* client: calls of poll() in flight at one time
MaxReconnects == 2     \* client: pending timeouts of forceReconnect
MaxAttempts == 7       \* client: ceiling of health.retryAttempts
NumChat == 2           \* chat messages the HTTP endpoint ever stores: ids 1..NumChat
MaxFetches == 2        \* client: calls of pollMessages in flight at one time
ExtraRecipients == 2   \* broadcast route: recipients tried beyond MaxRecipients

\* ------------------------------------------------------- program constants
MaxRetries == 5        \* retryInfo.maxRetries
RetryBaseDelay == 1000 \* handleConnectionRetry: first delay of connection_retry, ms
RetryMaxDelay == 16000 \* handleConnectionRetry: ceiling of that delay, ms
IdleTimeoutDelay == 2  \* setupIdleTimeout: 30 minutes
MaxIdleTime == 2       \* checkIdleConnection: 30 minutes
StaleIdleTime == 4     \* performCleanup: 1 hour
MaxRetryAge == 0       \* performCleanup: 5 minutes (less than one unit)
AgeCap == StaleIdleTime + 1
MaxRecipients == 100   \* broadcast route: 'Maximum 100 recipients'
ClientMaxRetries == 5  \* client: health.maxRetries
BaseDelay == 2000      \* client: first reconnection delay, ms
MaxDelay == 32000      \* client: ceiling of the reconnection delay, ms

Sockets == 1..NumSockets
\* the sockets whose peers act: Spec and RetrySpec follow one socket through
\* its whole life (a handler touches the entries of its own socket only)
Conns == {1}
DirectoryUsers == 1..NumUsers
\* decoded.userId of a token: 0 stands for an absent or non-numeric userId,
\* NumUsers + 1 for a well-formed id that has no row in the users table
TokenUserIds == 0..(NumUsers + 1)
Tokens == [formatOk : BOOLEAN, verifies : BOOLEAN, userId : TokenUserIds]
NoTimer == -1
NoEvent == [ev |-> "", from |-> 0]
\* helpRequestId as a peer may send it: a number (also 0 or negative) or not
HelpRequestIds ==
    [isNumber : {TRUE}, n : (-1)..NumRooms] \cup {[isNumber |-> FALSE, n |-> 1]}

VARIABLES
    jwtSecret,          \* process.env.JWT_SECRET is set
    sockets,            \* per socket id: "new" | "open" (in io.sockets.sockets) | "closed" | "refused"
    connectedUsers,     \* Map socket id -> UserConnection
    connectionRetries,  \* Map socket id -> ConnectionRetry
    heartbeatTimer,     \* per socket: its setInterval is active
    idleTimer,          \* per socket: time left of its pending setTimeout, or NoTimer
    retryTimers,        \* per socket: pending connection_retry timeouts, oldest first
    rooms,              \* per socket: the adapter rooms it is in
    userConnections,    \* rows of table user_connections
    handshakes,         \* authenticate handlers suspended at an await
    pendingCleanup,     \* sockets whose disconnect handler awaits the row delete
    messages,           \* rows of table messages
    sends,              \* send_message handlers suspended at an await
    cleanupInterval,    \* the sweep's setInterval is active
    sweep,              \* performCleanup: where it is suspended, and what is left
    shutdown,           \* shutdown(): where it is suspended, and what is left
    out,                \* events emitted by the step that led to this state
    timerRan,           \* the socket whose timer callback that step was, or 0
    received,           \* the inbound event that step handled, or NoEvent
    authFailed          \* sockets on which some handshake has failed so far

\* The polling client (hook useSocket) of one browser tab.
VARIABLES
    clientToken,        \* the hook's `token` argument is set
    health,             \* state `health`: connected, authenticated, retryAttempts, lastError
    pollingIntervalRef, \* pollingIntervalRef.current holds an interval
    pollIntervals,      \* the poll setIntervals that are active
    retryTimeoutRef,    \* retryTimeoutRef.current: delay in ms of the timeout it holds, or 0
    retryTimeouts,      \* the reconnection setTimeouts that are pending
    polls,              \* calls of poll() awaiting their fetches
    reconnects,         \* pending setTimeout(initializeConnection) of forceReconnect
    clientMessages,     \* state `messages`: the merged list, as message ids
    lastMessageTimestamp, \* lastMessageTimestamp.current, or 0 for null
    fetches,            \* calls of pollMessages awaiting their response
    chat                \* messages stored behind GET /chat/messages: ids 1..chat

\* The HTTP route POST /api/communications/escalate/broadcast.
VARIABLES
    broadcast           \* the request it is handling and, once answered, the response

httpVars == <<broadcast>>

clientVars == <<clientToken, health, pollingIntervalRef, pollIntervals, retryTimeoutRef,
                retryTimeouts, polls, reconnects, clientMessages,
                lastMessageTimestamp, fetches, chat, httpVars>>

serverVars == <<jwtSecret, sockets, connectedUsers, connectionRetries,
                heartbeatTimer, idleTimer, retryTimers, rooms, userConnections,
                handshakes, pendingCleanup, messages, sends, cleanupInterval,
                sweep, shutdown, out, timerRan, received,
                authFailed>>

vars == <<serverVars, clientVars>>

background == <<cleanupInterval, sweep, shutdown>>

\* ----------------------------------------------------------------- helpers
UserRoom(u) == <<"user", u>>
HelpRoom(n) == <<"help_request", n>>

\* socket.emit(ev, payload) on socket c; `live` is socket.connected at the call
Emit(S, c, ev, msg, arg) ==
    [to |-> c, ev |-> ev, msg |-> msg, arg |-> arg, live |-> S.sockets[c] = "open"]

\* Math.min over a set of numbers, and Math.pow(2, n)
Min(cs) == CHOOSE x \in cs : \A y \in cs : x <= y

RECURSIVE Pow2(_)
Pow2(n) == IF n = 0 THEN 1 ELSE 2 * Pow2(n - 1)

MapDelete(m, k) == [x \in DOMAIN m \ {k} |-> m[x]]
MapSet(m, k, v) == [x \in DOMAIN m \cup {k} |-> IF x = k THEN v ELSE m[x]]

\* The mutable server state as one record, so that a handler's calls compose.
State ==
    [sockets |-> sockets, connectedUsers |-> connectedUsers,
     connectionRetries |-> connectionRetries, heartbeatTimer |-> heartbeatTimer,
     idleTimer |-> idleTimer, retryTimers |-> retryTimers, rooms |-> rooms,
     userConnections |-> userConnections, pendingCleanup |-> pendingCleanup]

Commit(S) ==
    /\ sockets' = S.sockets
    /\ connectedUsers' = S.connectedUsers
    /\ connectionRetries' = S.connectionRetries
    /\ heartbeatTimer' = S.heartbeatTimer
    /\ idleTimer' = S.idleTimer
    /\ retryTimers' = S.retryTimers
    /\ rooms' = S.rooms
    /\ userConnections' = S.userConnections
    /\ pendingCleanup' = S.pendingCleanup


\* updateLastActivity(socketId)
updateLastActivity(S, c) ==
    IF c \in DOMAIN S.connectedUsers
    THEN [S EXCEPT !.connectedUsers[c].lastActivity = 0]
    ELSE S

\* A pending connection_retry timeout closes over its retryInfo object: while
\* that object is the one in the map the timeout reads the map's entry
\* (attempts = Live); once the entry is deleted nobody writes to the object any
\* more, and the timeout keeps the attempts it had then.
Live == -1
Detach(timers, attempts) ==
    [i \in DOMAIN timers |->
        IF timers[i].attempts = Live THEN [timers[i] EXCEPT !.attempts = attempts]
        ELSE timers[i]]

\* this.connectionRetries.delete(socketId)
retriesDelete(S, c) ==
    IF c \in DOMAIN S.connectionRetries
    THEN [S EXCEPT !.connectionRetries = MapDelete(@, c),
                   !.retryTimers[c] = Detach(@, S.connectionRetries[c].attempts)]
    ELSE S

\* a cleanup that forgets the retry entry
cleanupRemove_KeepsRetries(S, c) ==
    [S EXCEPT !.connectedUsers = MapDelete(@, c)]

\* cleanupConnection, after the row delete (or when there is none to do):
\* this.connectedUsers.delete(socketId); this.connectionRetries.delete(socketId)
cleanupRemove(S, c) ==
    retriesDelete([S EXCEPT !.connectedUsers = MapDelete(@, c)], c)

\* cleanupConnection suspends at `await db.deleteFrom(...)`
cleanupAwaits(S, c) ==
    c \in DOMAIN S.connectedUsers /\ S.connectedUsers[c].userId # 0

\* cleanupConnection(socketId) up to its await, or to its end when it has none
cleanupConnection(S, c) ==
    IF c \in DOMAIN S.connectedUsers
    THEN LET conn == S.connectedUsers[c]
             S1 == [S EXCEPT
                      !.heartbeatTimer[c] = IF conn.heartbeatInterval THEN FALSE ELSE @,
                      !.idleTimer[c] = IF conn.idleTimeout THEN NoTimer ELSE @]
         IN  IF conn.userId # 0 THEN S1 ELSE cleanupRemove(S1, c)
    ELSE retriesDelete(S, c)

\* the row delete of cleanupConnection succeeded: the rest of the try block
cleanupDeleted(S, c) ==
    cleanupRemove(
        [S EXCEPT !.userConnections = {r \in @ : r.socket_id # c}], c)

\* socket.disconnect(true), or the peer closing: socket.io drops the socket
\* from io.sockets.sockets, leaves its rooms and fires 'disconnect', whose
\* handler (handleDisconnect) runs cleanupConnection up to its await.
socketClose(S, c) ==
    IF S.sockets[c] # "open" THEN S
    ELSE LET S1 == [S EXCEPT !.sockets[c] = "closed", !.rooms[c] = {}]
         IN  [cleanupConnection(S1, c) EXCEPT
                !.pendingCleanup = IF cleanupAwaits(S1, c) THEN @ \cup {c} ELSE @]

\* a forceDisconnect that logs and leaves the socket as it is
forceDisconnect_LogsOnly(S, c) == S

\* forceDisconnect(socket, reason)
forceDisconnect(S, c) == socketClose(S, c)

\* setupIdleTimeout(socket)
setupIdleTimeout(S, c) ==
    LET S1 == [S EXCEPT !.idleTimer[c] = IdleTimeoutDelay]
    IN  IF c \in DOMAIN S1.connectedUsers
        THEN [S1 EXCEPT !.connectedUsers[c].idleTimeout = TRUE]
        ELSE S1

\* isAuthenticated(socketId)
isAuthenticated(S, c) ==
    IF c \in DOMAIN S.connectedUsers THEN S.connectedUsers[c].userId > 0 ELSE FALSE

SweepIdle == [pc |-> "idle", conn |-> 0, todo |-> {}, rows |-> {}]

NoRequest == [isArray |-> FALSE, count |-> 0, hasBody |-> FALSE]
NoBroadcast == [pc |-> "none", req |-> NoRequest, status |-> 0, error |-> "", sent |-> 0]

\* -------------------------------------------------------------------- Init
\* useState<ConnectionHealthStatus>: the initial value, also set by cleanup()
HealthInit ==
    [connected |-> FALSE, authenticated |-> FALSE, retryAttempts |-> 0,
     lastError |-> "null"]

Init ==
    /\ jwtSecret \in BOOLEAN
    /\ sockets = [c \in Sockets |-> "new"]
    /\ connectedUsers = <<>>
    /\ connectionRetries = <<>>
    /\ heartbeatTimer = [c \in Sockets |-> FALSE]
    /\ idleTimer = [c \in Sockets |-> NoTimer]
    /\ retryTimers = [c \in Sockets |-> <<>>]
    /\ rooms = [c \in Sockets |-> {}]
    /\ userConnections = {}
    /\ handshakes = {}
    /\ pendingCleanup = {}
    /\ messages = {}
    /\ sends = {}
    /\ cleanupInterval = TRUE
    /\ sweep = SweepIdle
    /\ shutdown = [pc |-> "none", conn |-> 0, todo |-> {}]
    /\ out = <<>>
    /\ timerRan = 0
    /\ received = NoEvent
    /\ authFailed = {}
    /\ clientToken = FALSE
    /\ health = HealthInit
    /\ pollingIntervalRef = FALSE
    /\ pollIntervals = 0
    /\ retryTimeoutRef = 0
    /\ retryTimeouts = 0
    /\ polls = 0
    /\ reconnects = 0
    /\ clientMessages = <<>>
    /\ lastMessageTimestamp = 0
    /\ fetches = <<>>
    /\ chat = 0
    /\ broadcast = NoBroadcast

\* ------------------------------------------------- connection and teardown
\* What validateConnection reads of a connection attempt: the Origin and
\* Referer headers (absent, or what validateOrigin says of them: in the
\* allow-list or not), detectCSWH's verdict and checkConnectionRateLimit's.
Headers == {"absent", "listed", "unlisted"}
ConnectionRequests ==
    [origin : Headers, referer : Headers, cswh : BOOLEAN, rateOk : BOOLEAN]

\* validateConnection(socket)
validateConnection(req) ==
    LET origin == IF req.origin # "absent" THEN req.origin ELSE req.referer
    IN  IF origin # "absent" /\ origin # "listed" THEN FALSE
        ELSE IF req.cswh THEN FALSE
        ELSE IF ~req.rateOk THEN FALSE
        ELSE TRUE

\* handleNewConnection(socket): the entry, the timers and the listeners
handleNewConnection(S, c) ==
    [S EXCEPT
       !.sockets[c] = "open",
       !.connectedUsers = MapSet(@, c,
            [userId |-> 0, lastActivity |-> 0,
             heartbeatInterval |-> TRUE, idleTimeout |-> TRUE]),
       !.heartbeatTimer[c] = TRUE,
       !.idleTimer[c] = IdleTimeoutDelay]

\* a gate that sets the connection up before it looks at the attempt
Connection_SetUpFirst(c, req) ==
    /\ sockets[c] = "new"
    /\ \A d \in Sockets : d < c => sockets[d] # "new"
    /\ Commit([handleNewConnection(State, c) EXCEPT
                  !.sockets[c] = IF validateConnection(req) THEN "open" ELSE "refused"])
    /\ out' = <<>>
    /\ timerRan' = 0
    /\ received' = NoEvent
    /\ UNCHANGED clientVars
    /\ UNCHANGED <<jwtSecret, handshakes, messages, sends, background, authFailed>>

\* io.on('connection'): validateConnection, then socket.disconnect(true) (the
\* socket is refused: closed with no listener on it) or handleNewConnection
Connection(c, req) ==
    /\ sockets[c] = "new"
    /\ \A d \in Sockets : d < c => sockets[d] # "new"
    /\ Commit(IF validateConnection(req) THEN handleNewConnection(State, c)
              ELSE [State EXCEPT !.sockets[c] = "refused"])
    /\ out' = <<>>
    /\ timerRan' = 0
    /\ received' = NoEvent
    /\ UNCHANGED clientVars
    /\ UNCHANGED <<jwtSecret, handshakes, messages, sends, background, authFailed>>

\* the peer closes the transport: 'disconnect' -> cleanupConnection
Disconnect(c) ==
    /\ sockets[c] = "open"
    /\ Commit(socketClose(State, c))
    /\ out' = <<>>
    /\ timerRan' = 0
    /\ received' = NoEvent
    /\ UNCHANGED clientVars
    /\ UNCHANGED <<jwtSecret, handshakes, messages, sends, background, authFailed>>

\* the row delete awaited by the disconnect handler's cleanupConnection
\* returns, or throws into the catch block
CleanupDone(c, ok) ==
    /\ c \in pendingCleanup
    /\ LET S == [State EXCEPT !.pendingCleanup = @ \ {c}]
       IN  Commit(IF ok THEN cleanupDeleted(S, c) ELSE S)
    /\ out' = <<>>
    /\ timerRan' = 0
    /\ received' = NoEvent
    /\ UNCHANGED clientVars
    /\ UNCHANGED <<jwtSecret, handshakes, messages, sends, background, authFailed>>

\* ------------------------------------------------------------- handshake
\* the checks without the one for a missing JWT_SECRET
AuthSyncError_NoSecretCheck(token, rateOk) ==
    IF ~rateOk THEN "Too many authentication attempts"
    ELSE IF ~token.formatOk THEN "Invalid token format"
    ELSE IF ~token.verifies THEN "Invalid authentication token"
    ELSE IF token.userId = 0 THEN "Invalid user ID in token"
    ELSE ""

\* the checks with the token verified before its format is looked at
AuthSyncError_VerifyFirst(token, rateOk) ==
    IF ~rateOk THEN "Too many authentication attempts"
    ELSE IF ~jwtSecret THEN "Authentication service unavailable"
    ELSE IF ~token.verifies THEN "Invalid authentication token"
    ELSE IF ~token.formatOk THEN "Invalid token format"
    ELSE IF token.userId = 0 THEN "Invalid user ID in token"
    ELSE ""

\* The synchronous checks of the 'authenticate' handler, in order; "" when
\* all of them pass.  rateOk is checkAuthRateLimit's verdict.
AuthSyncError(token, rateOk) ==
    IF ~rateOk THEN "Too many authentication attempts"
    ELSE IF ~token.formatOk THEN "Invalid token format"
    ELSE IF ~jwtSecret THEN "Authentication service unavailable"
    ELSE IF ~token.verifies THEN "Invalid authentication token"
    ELSE IF token.userId = 0 THEN "Invalid user ID in token"
    ELSE ""

\* a rejection that also closes the socket
AuthError_Close(S, c, msg) ==
    /\ Commit(forceDisconnect(S, c))
    /\ out' = <<Emit(S, c, "auth_error", msg, 0)>>
    /\ authFailed' = authFailed \cup {c}

\* socket.emit('auth_error', { message }) and return
AuthError(S, c, msg) ==
    /\ Commit(S)
    /\ out' = <<Emit(S, c, "auth_error", msg, 0)>>
    /\ authFailed' = authFailed \cup {c}

\* socket.on('authenticate') up to `await db.selectFrom('users')`
Authenticate(c, token, rateOk) ==
    /\ sockets[c] = "open"
    /\ LET S == updateLastActivity(State, c)
           err == AuthSyncError(token, rateOk)
           h == [conn |-> c, userId |-> token.userId, pc |-> "lookup"]
       IN  IF err # ""
           THEN /\ AuthError(S, c, err)
                /\ UNCHANGED handshakes
           ELSE /\ h \notin handshakes
                /\ Cardinality(handshakes) < MaxHandshakes
                /\ Commit(S)
                /\ handshakes' = handshakes \cup {h}
                /\ out' = <<>>
                /\ UNCHANGED authFailed
    /\ timerRan' = 0
    /\ received' = [ev |-> "authenticate", from |-> c]
    /\ UNCHANGED clientVars
    /\ UNCHANGED <<jwtSecret, messages, sends, background>>

\* the users lookup returns (or throws): on to `await db.insertInto(...)`
AuthLookupDone(h, throws) ==
    /\ h \in handshakes
    /\ h.pc = "lookup"
    /\ LET c == h.conn
           h2 == [h EXCEPT !.pc = "insert"]
       IN  IF throws \/ h.userId \notin DirectoryUsers
           THEN /\ AuthError(State, c,
                       IF throws THEN "Authentication failed" ELSE "User not found")
                /\ handshakes' = handshakes \ {h}
           ELSE /\ h2 \notin handshakes
                /\ Commit(IF c \in DOMAIN connectedUsers
                          THEN [State EXCEPT !.connectedUsers[c].userId = h.userId]
                          ELSE State)
                /\ handshakes' = (handshakes \ {h}) \cup {h2}
                /\ out' = <<>>
                /\ UNCHANGED authFailed
    /\ timerRan' = 0
    /\ received' = NoEvent
    /\ UNCHANGED clientVars
    /\ UNCHANGED <<jwtSecret, messages, sends, background>>

\* a handshake that keeps the socket's entry in connectionRetries
AuthInsertDone_KeepsRetries(h, throws) ==
    /\ h \in handshakes
    /\ h.pc = "insert"
    /\ handshakes' = handshakes \ {h}
    /\ LET c == h.conn
           S1 == [State EXCEPT
                    !.userConnections = @ \cup {[user_id |-> h.userId, socket_id |-> c]},
                    !.rooms[c] = @ \cup {UserRoom(h.userId)}]
       IN  IF throws
           THEN /\ AuthError(State, c, "Authentication failed")
           ELSE /\ Commit(S1)
                /\ out' = <<Emit(S1, c, "authenticated", "", h.userId)>>
                /\ UNCHANGED authFailed
    /\ timerRan' = 0
    /\ received' = NoEvent
    /\ UNCHANGED clientVars
    /\ UNCHANGED <<jwtSecret, messages, sends, background>>

\* the user_connections insert returns (or throws): the rest of the handler
AuthInsertDone(h, throws) ==
    /\ h \in handshakes
    /\ h.pc = "insert"
    /\ handshakes' = handshakes \ {h}
    /\ LET c == h.conn
           S1 == [State EXCEPT
                    !.userConnections = @ \cup {[user_id |-> h.userId, socket_id |-> c]},
                    !.rooms[c] = @ \cup {UserRoom(h.userId)}]
           S2 == retriesDelete(S1, c)
       IN  IF throws
           THEN /\ AuthError(State, c, "Authentication failed")
           ELSE /\ Commit(S2)
                /\ out' = <<Emit(S2, c, "authenticated", "", h.userId)>>
                /\ UNCHANGED authFailed
    /\ timerRan' = 0
    /\ received' = NoEvent
    /\ UNCHANGED clientVars
    /\ UNCHANGED <<jwtSecret, messages, sends, background>>

\* ------------------------------------------------------------------ rooms
\* the handler without its isAuthenticated check
JoinHelpRequest_NoAuth(c, id) ==
    /\ sockets[c] = "open"
    /\ LET S == updateLastActivity(State, c)
       IN  IF id.n = 0 \/ ~id.isNumber \/ id.n <= 0
           THEN /\ Commit(S)
                /\ out' = <<Emit(S, c, "error", "Invalid help request ID", 0)>>
           ELSE /\ Commit([S EXCEPT !.rooms[c] = @ \cup {HelpRoom(id.n)}])
                /\ out' = <<Emit(S, c, "room_joined", "", id.n)>>
    /\ timerRan' = 0
    /\ received' = [ev |-> "join_help_request", from |-> c]
    /\ UNCHANGED clientVars
    /\ UNCHANGED <<jwtSecret, handshakes, messages, sends, background, authFailed>>

\* socket.on('join_help_request')
JoinHelpRequest(c, id) ==
    /\ sockets[c] = "open"
    /\ LET S == updateLastActivity(State, c)
       IN  IF ~isAuthenticated(S, c)
           THEN /\ Commit(S)
                /\ out' = <<Emit(S, c, "error", "Not authenticated", 0)>>
           ELSE IF id.n = 0 \/ ~id.isNumber \/ id.n <= 0
           THEN /\ Commit(S)
                /\ out' = <<Emit(S, c, "error", "Invalid help request ID", 0)>>
           ELSE /\ Commit([S EXCEPT !.rooms[c] = @ \cup {HelpRoom(id.n)}])
                /\ out' = <<Emit(S, c, "room_joined", "", id.n)>>
    /\ timerRan' = 0
    /\ received' = [ev |-> "join_help_request", from |-> c]
    /\ UNCHANGED clientVars
    /\ UNCHANGED <<jwtSecret, handshakes, messages, sends, background, authFailed>>

\* socket.on('leave_help_request')
LeaveHelpRequest(c, id) ==
    /\ sockets[c] = "open"
    /\ LET S == updateLastActivity(State, c)
       IN  IF id.n = 0 \/ ~id.isNumber
           THEN /\ Commit(S)
                /\ out' = <<>>
           ELSE /\ Commit([S EXCEPT !.rooms[c] = @ \ {HelpRoom(id.n)}])
                /\ out' = <<Emit(S, c, "room_left", "", id.n)>>
    /\ timerRan' = 0
    /\ received' = [ev |-> "leave_help_request", from |-> c]
    /\ UNCHANGED clientVars
    /\ UNCHANGED <<jwtSecret, handshakes, messages, sends, background, authFailed>>

\* -------------------------------------------------------------- messaging
\* The synchronous checks of the 'send_message' handler, in order; "" when all
\* of them pass.  data is the payload: helpRequestId, whether message is a
\* non-blank string, and validateMessage's verdict on it (isValid and the
\* sanitized text); rateOk is checkMessageRateLimit's verdict.
SendSyncError(S, c, data, rateOk) ==
    IF c \notin DOMAIN S.connectedUsers \/ S.connectedUsers[c].userId = 0
    THEN "Not authenticated"
    ELSE IF ~rateOk THEN "Message rate limit exceeded"
    ELSE IF data.helpRequestId.n = 0 \/ ~data.helpRequestId.isNumber
    THEN "Invalid help request ID"
    ELSE IF ~data.nonBlank THEN "Message cannot be empty"
    ELSE IF ~data.isValid THEN "Message contains inappropriate content"
    ELSE ""

\* validation.sanitized: the message as it came, or a cleaned text
Sanitized == {"raw", "clean"}

\* validateMessage is called for a non-blank string only, and its sanitized
\* text is read only when it found the message valid
SendData ==
    {d \in [helpRequestId : HelpRequestIds, nonBlank : BOOLEAN, isValid : BOOLEAN,
            sanitized : Sanitized] :
        /\ ~d.nonBlank => ~d.isValid
        /\ ~d.isValid => d.sanitized = "raw"}

\* savedMessage.created_at, set by the database
Stamps == 1..NumStamps

\* a rejected send that is confirmed to the sender all the same
SendMessage_AckRejected(c, data, rateOk) ==
    /\ sockets[c] = "open"
    /\ LET S == updateLastActivity(State, c)
           err == SendSyncError(S, c, data, rateOk)
           m == [conn |-> c, helpRequestId |-> data.helpRequestId.n,
                 sender_id |-> S.connectedUsers[c].userId,
                 sanitized |-> data.sanitized,
                 pc |-> "insert", id |-> 0, created_at |-> 0]
       IN  /\ Commit(S)
           /\ IF err # ""
              THEN /\ out' = <<Emit(S, c, "error", err, 0),
                             Emit(S, c, "message_sent", "", 0)>>
                   /\ UNCHANGED sends
              ELSE /\ m \notin sends
                   /\ Cardinality(messages) + Cardinality(sends) < MaxMessages
                   /\ sends' = sends \cup {m}
                   /\ out' = <<>>
    /\ timerRan' = 0
    /\ received' = [ev |-> "send_message", from |-> c]
    /\ UNCHANGED clientVars
    /\ UNCHANGED <<jwtSecret, handshakes, messages, background, authFailed>>

\* socket.on('send_message') up to `await db.insertInto('messages')`
SendMessage(c, data, rateOk) ==
    /\ sockets[c] = "open"
    /\ LET S == updateLastActivity(State, c)
           err == SendSyncError(S, c, data, rateOk)
           m == [conn |-> c, helpRequestId |-> data.helpRequestId.n,
                 sender_id |-> S.connectedUsers[c].userId,
                 sanitized |-> data.sanitized,
                 pc |-> "insert", id |-> 0, created_at |-> 0]
       IN  /\ Commit(S)
           /\ IF err # ""
              THEN /\ out' = <<Emit(S, c, "error", err, 0)>>
                   /\ UNCHANGED sends
              ELSE /\ m \notin sends
                   /\ Cardinality(messages) + Cardinality(sends) < MaxMessages
                   /\ sends' = sends \cup {m}
                   /\ out' = <<>>
    /\ timerRan' = 0
    /\ received' = [ev |-> "send_message", from |-> c]
    /\ UNCHANGED clientVars
    /\ UNCHANGED <<jwtSecret, handshakes, messages, background, authFailed>>

\* messageData: the event with its sender label and timestamp
Stamped(e, sender, at) ==
    [to |-> e.to, ev |-> e.ev, msg |-> e.msg, arg |-> e.arg, live |-> e.live,
     sender |-> sender, timestamp |-> at]

StampAll(es, sender, at) == [i \in DOMAIN es |-> Stamped(es[i], sender, at)]

InsertResults == {"row", "none", "throws"}

\* a failed insert that is confirmed to the sender all the same
SendInsertDone_AckAnyway(m, result, at) ==
    /\ m \in sends
    /\ m.pc = "insert"
    /\ LET id == Cardinality(messages) + 1
           row == [id |-> id, created_at |-> at,
                   help_request_id |-> m.helpRequestId,
                   sender_id |-> m.sender_id, message |-> m.sanitized]
       IN  IF result = "row"
           THEN /\ messages' = messages \cup {row}
                /\ sends' = (sends \ {m})
                              \cup {[m EXCEPT !.pc = "sender", !.id = id,
                                              !.created_at = at]}
                /\ out' = <<>>
           ELSE /\ sends' = sends \ {m}
                /\ out' = <<Emit(State, m.conn, "error",
                                 IF result = "none" THEN "Failed to save message"
                                 ELSE "Failed to send message", 0),
                            Stamped(Emit(State, m.conn, "message_sent", "", 0), "", at)>>
                /\ UNCHANGED messages
    /\ Commit(State)
    /\ timerRan' = 0
    /\ received' = NoEvent
    /\ UNCHANGED clientVars
    /\ UNCHANGED <<jwtSecret, handshakes, background, authFailed>>

\* the messages insert returns a row (with its id and created_at), returns
\* none, or throws: on to `await db.selectFrom('users')` for the sender
SendInsertDone(m, result, at) ==
    /\ m \in sends
    /\ m.pc = "insert"
    /\ LET id == Cardinality(messages) + 1
           row == [id |-> id, created_at |-> at,
                   help_request_id |-> m.helpRequestId,
                   sender_id |-> m.sender_id, message |-> m.sanitized]
       IN  IF result = "row"
           THEN /\ messages' = messages \cup {row}
                /\ sends' = (sends \ {m})
                              \cup {[m EXCEPT !.pc = "sender", !.id = id,
                                              !.created_at = at]}
                /\ out' = <<>>
           ELSE /\ sends' = sends \ {m}
                /\ out' = <<Emit(State, m.conn, "error",
                                 IF result = "none" THEN "Failed to save message"
                                 ELSE "Failed to send message", 0)>>
                /\ UNCHANGED messages
    /\ Commit(State)
    /\ timerRan' = 0
    /\ received' = NoEvent
    /\ UNCHANGED clientVars
    /\ UNCHANGED <<jwtSecret, handshakes, background, authFailed>>

\* every open socket, whatever its rooms
Members_Everyone(S, room) ==
    {c \in Sockets : S.sockets[c] = "open"}

\* the sockets io.to(room) reaches: those the adapter holds in the room
Members(S, room) ==
    {c \in Sockets : S.sockets[c] = "open" /\ room \in S.rooms[c]}

\* this.io.to(room).emit(ev): one event per socket that is in the room
Broadcast(S, room, ev, msg, arg) ==
    LET RECURSIVE ToSeq(_)
        ToSeq(cs) == IF cs = {} THEN <<>>
                     ELSE LET c == CHOOSE x \in cs : \A y \in cs : x <= y
                          IN  <<Emit(S, c, ev, msg, arg)>> \o ToSeq(cs \ {c})
    IN  ToSeq(Members(S, room))

\* sender?.username || 'Unknown'
SenderLabel(result) == IF result = "row" THEN "username" ELSE "Unknown"

\* the sender lookup returns (a row or none) or throws: broadcast and confirm
SendSenderDone(m, result) ==
    /\ m \in sends
    /\ m.pc = "sender"
    /\ sends' = sends \ {m}
    /\ out' = IF result = "throws"
              THEN <<Emit(State, m.conn, "error", "Failed to send message", 0)>>
              ELSE StampAll(Broadcast(State, HelpRoom(m.helpRequestId),
                                      "new_message", m.sanitized, m.id),
                            SenderLabel(result), m.created_at)
                   \o <<Stamped(Emit(State, m.conn, "message_sent", "", m.id),
                                "", m.created_at)>>
    /\ Commit(State)
    /\ timerRan' = 0
    /\ received' = NoEvent
    /\ UNCHANGED clientVars
    /\ UNCHANGED <<jwtSecret, handshakes, messages, background, authFailed>>

\* ------------------------------------------------------- connection retry
\* a delay that stays at its first value
RetryDelay_Flat(attempts) == RetryBaseDelay

\* Math.min(1000 * Math.pow(2, retryInfo.attempts), 16000)
RetryDelay(attempts) == Min({RetryBaseDelay * Pow2(attempts), RetryMaxDelay})

\* socket.on('retry_connection'), while fewer than `pending` of the socket's
\* connection_retry timeouts are waiting to fire
handleConnectionRetry(c, pending) ==
    /\ sockets[c] = "open"
    /\ LET S == updateLastActivity(State, c)
           retryInfo == IF c \in DOMAIN S.connectionRetries
                        THEN S.connectionRetries[c]
                        ELSE [attempts |-> 0, lastAttempt |-> 0]
           stored == [attempts |-> retryInfo.attempts + 1, lastAttempt |-> 0]
       IN  IF retryInfo.attempts >= MaxRetries
           THEN /\ Commit(forceDisconnect(S, c))
                /\ out' = <<Emit(S, c, "max_retries_reached", "", 0)>>
           ELSE /\ Len(retryTimers[c]) < pending
                /\ Commit([S EXCEPT
                      !.connectionRetries = MapSet(@, c, stored),
                      !.retryTimers[c] =
                          Append(@, [sched |-> stored.attempts, attempts |-> Live,
                                     delay |-> RetryDelay(retryInfo.attempts)])])
                /\ out' = <<>>
    /\ timerRan' = 0
    /\ received' = [ev |-> "retry_connection", from |-> c]
    /\ UNCHANGED clientVars
    /\ UNCHANGED <<jwtSecret, handshakes, messages, sends, background, authFailed>>

\* the handler without its test of retryInfo.attempts against maxRetries
RetryConnection_NoLimit(c) ==
    /\ sockets[c] = "open"
    /\ LET S == updateLastActivity(State, c)
           retryInfo == IF c \in DOMAIN S.connectionRetries
                        THEN S.connectionRetries[c]
                        ELSE [attempts |-> 0, lastAttempt |-> 0]
           stored == [attempts |-> retryInfo.attempts + 1, lastAttempt |-> 0]
       IN  /\ Len(retryTimers[c]) < MaxRetryTimers
           /\ Commit([S EXCEPT
                 !.connectionRetries = MapSet(@, c, stored),
                 !.retryTimers[c] =
                     Append(@, [sched |-> stored.attempts, attempts |-> Live,
                                delay |-> RetryDelay(retryInfo.attempts)])])
           /\ out' = <<>>
    /\ timerRan' = 0
    /\ received' = [ev |-> "retry_connection", from |-> c]
    /\ UNCHANGED clientVars
    /\ UNCHANGED <<jwtSecret, handshakes, messages, sends, background, authFailed>>

\* socket.on('retry_connection')
RetryConnection(c) == handleConnectionRetry(c, MaxRetryTimers)

\* retryInfo.attempts as the timeout's closure reads it
TimerAttempts(S, c, t) ==
    IF t.attempts = Live THEN S.connectionRetries[c].attempts ELSE t.attempts

\* A timeout whose delay is not longer than that of an earlier one cannot
\* overtake it: the delay grows with the attempt number it was scheduled at.
MayFire(timers, i) == \A j \in 1..(i - 1) : timers[j].sched > timers[i].sched

Remove(seq, i) == [j \in 1..(Len(seq) - 1) |-> IF j < i THEN seq[j] ELSE seq[j + 1]]

\* the callback without its `if (socket.connected)`
RetryTimerFire_NoGuard(c, i) ==
    /\ i \in DOMAIN retryTimers[c]
    /\ MayFire(retryTimers[c], i)
    /\ out' = <<Emit(State, c, "connection_retry", "",
                     TimerAttempts(State, c, retryTimers[c][i]))>>
    /\ Commit([State EXCEPT !.retryTimers[c] = Remove(@, i)])
    /\ timerRan' = c
    /\ received' = NoEvent
    /\ UNCHANGED clientVars
    /\ UNCHANGED <<jwtSecret, handshakes, messages, sends, background, authFailed>>

\* the setTimeout callback of handleConnectionRetry
RetryTimerFire(c, i) ==
    /\ i \in DOMAIN retryTimers[c]
    /\ MayFire(retryTimers[c], i)
    /\ LET t == retryTimers[c][i]
       IN  out' = IF sockets[c] = "open"
                  THEN <<Emit(State, c, "connection_retry", "", TimerAttempts(State, c, t))>>
                  ELSE <<>>
    /\ Commit([State EXCEPT !.retryTimers[c] = Remove(@, i)])
    /\ timerRan' = c
    /\ received' = NoEvent
    /\ UNCHANGED clientVars
    /\ UNCHANGED <<jwtSecret, handshakes, messages, sends, background, authFailed>>

\* retry_connection events that come faster than their connection_retry
\* answers: one socket, up to MaxEchoTimers answers waiting at a time
EchoNext ==
    \/ \E c \in Conns, req \in ConnectionRequests : Connection(c, req)
    \/ \E c \in Conns : Disconnect(c)
    \/ \E c \in Conns : handleConnectionRetry(c, MaxEchoTimers)
    \/ \E c \in Conns, i \in 1..MaxEchoTimers : RetryTimerFire(c, i)

EchoSpec == Init /\ [][EchoNext]_vars

\* ---------------------------------------------------- heartbeat and idle
\* socket.on('pong')
Pong(c) ==
    /\ sockets[c] = "open"
    /\ Commit(updateLastActivity(updateLastActivity(State, c), c))
    /\ out' = <<>>
    /\ timerRan' = 0
    /\ received' = [ev |-> "pong", from |-> c]
    /\ UNCHANGED clientVars
    /\ UNCHANGED <<jwtSecret, handshakes, messages, sends, background, authFailed>>

\* the setInterval callback of setupHeartbeat
HeartbeatFire(c) ==
    /\ heartbeatTimer[c]
    /\ IF sockets[c] = "open"
       THEN /\ Commit(State)
            /\ out' = <<Emit(State, c, "ping", "", 0)>>
       ELSE /\ Commit([State EXCEPT !.heartbeatTimer[c] = FALSE])
            /\ out' = <<>>
    /\ timerRan' = c
    /\ received' = NoEvent
    /\ UNCHANGED clientVars
    /\ UNCHANGED <<jwtSecret, handshakes, messages, sends, background, authFailed>>

\* checkIdleConnection(socket).  The timeout fires no earlier than its delay
\* after it was armed: `late` says the clock has moved on since by less than
\* one unit, which makes an idle time equal to the ceiling exceed it.
checkIdleConnection(S, c, late) ==
    IF c \notin DOMAIN S.connectedUsers THEN [S |-> S, out |-> <<>>]
    ELSE LET idleTime == S.connectedUsers[c].lastActivity
         IN  IF idleTime > MaxIdleTime \/ (idleTime = MaxIdleTime /\ late)
             THEN [S |-> forceDisconnect(S, c),
                   out |-> <<Emit(S, c, "idle_timeout", "", 0)>>]
             ELSE [S |-> setupIdleTimeout(S, c), out |-> <<>>]

\* the setTimeout callback of setupIdleTimeout
IdleTimerFire(c, late) ==
    /\ idleTimer[c] = 0
    /\ LET r == checkIdleConnection([State EXCEPT !.idleTimer[c] = NoTimer], c, late)
       IN  /\ Commit(r.S)
           /\ out' = r.out
    /\ timerRan' = c
    /\ received' = NoEvent
    /\ UNCHANGED clientVars
    /\ UNCHANGED <<jwtSecret, handshakes, messages, sends, background, authFailed>>

\* 15 minutes pass: the sweep's interval fires.  A timeout that is due fires
\* before the clock moves on, and a sweep is over before the next one is due.
Older(t, cap) == IF t < cap THEN t + 1 ELSE t

Tick ==
    /\ \A c \in Sockets : idleTimer[c] # 0
    /\ sweep.pc = "idle"
    /\ connectedUsers' = [c \in DOMAIN connectedUsers |->
           [connectedUsers[c] EXCEPT !.lastActivity = Older(@, AgeCap)]]
    /\ connectionRetries' = [c \in DOMAIN connectionRetries |->
           [connectionRetries[c] EXCEPT !.lastAttempt = Older(@, MaxRetryAge + 1)]]
    /\ idleTimer' = [c \in Sockets |->
           IF idleTimer[c] = NoTimer THEN NoTimer ELSE idleTimer[c] - 1]
    /\ sweep' = IF cleanupInterval THEN [sweep EXCEPT !.pc = "due"] ELSE sweep
    /\ out' = <<>>
    /\ timerRan' = 0
    /\ received' = NoEvent
    /\ UNCHANGED clientVars
    /\ UNCHANGED <<jwtSecret, sockets, heartbeatTimer, retryTimers, rooms,
                   userConnections, handshakes, pendingCleanup, messages, sends,
                   cleanupInterval, shutdown, authFailed>>

\* ------------------------------------------------------------------ sweep
\* performCleanup, the loop over this.connectedUsers.entries(), from the
\* entries still to visit up to the next `await cleanupConnection` that has a
\* row to delete (conn), or to the end of the loop (conn = 0).  The Map is
\* iterated in insertion order and skips entries deleted in the meantime.
RECURSIVE staleLoop(_, _)
staleLoop(S, todo) ==
    IF todo = {} THEN [S |-> S, conn |-> 0, todo |-> {}]
    ELSE LET c == Min(todo)
             rest == todo \ {c}
         IN  IF c \notin DOMAIN S.connectedUsers
                \/ ~(S.connectedUsers[c].lastActivity > StaleIdleTime)
             THEN staleLoop(S, rest)
             ELSE IF S.sockets[c] = "open"
             THEN staleLoop(forceDisconnect(S, c), rest)
             ELSE IF cleanupAwaits(S, c)
             THEN [S |-> cleanupConnection(S, c), conn |-> c, todo |-> rest]
             ELSE staleLoop(cleanupConnection(S, c), rest)

\* performCleanup, the loop over this.connectionRetries.entries()
RECURSIVE expireRetries(_, _)
expireRetries(S, todo) ==
    IF todo = {} THEN S
    ELSE LET c == Min(todo)
         IN  expireRetries(
                 IF S.connectionRetries[c].lastAttempt > MaxRetryAge
                 THEN retriesDelete(S, c) ELSE S,
                 todo \ {c})

\* performCleanup from the loop over the entries to its next await
sweepStale(S, todo) ==
    LET r == staleLoop(S, todo)
    IN  IF r.conn # 0
        THEN [S |-> r.S, sweep |-> [pc |-> "stale", conn |-> r.conn,
                                    todo |-> r.todo, rows |-> {}]]
        ELSE [S |-> expireRetries(r.S, DOMAIN r.S.connectionRetries),
              sweep |-> [SweepIdle EXCEPT !.pc = "select"]]

\* the setInterval callback of startCleanupProcess: performCleanup()
SweepStart ==
    /\ sweep.pc = "due"
    /\ LET r == sweepStale(State, DOMAIN connectedUsers)
       IN  /\ Commit(r.S)
           /\ sweep' = r.sweep
    /\ out' = <<>>
    /\ timerRan' = 0
    /\ received' = NoEvent
    /\ UNCHANGED clientVars
    /\ UNCHANGED <<jwtSecret, handshakes, messages, sends, cleanupInterval,
                   shutdown, authFailed>>

\* the row delete of the cleanupConnection awaited by the sweep returns or throws
SweepStaleDone(ok) ==
    /\ sweep.pc = "stale"
    /\ LET r == sweepStale(IF ok THEN cleanupDeleted(State, sweep.conn) ELSE State,
                           sweep.todo)
       IN  /\ Commit(r.S)
           /\ sweep' = r.sweep
    /\ out' = <<>>
    /\ timerRan' = 0
    /\ received' = NoEvent
    /\ UNCHANGED clientVars
    /\ UNCHANGED <<jwtSecret, handshakes, messages, sends, cleanupInterval,
                   shutdown, authFailed>>

\* performCleanup, the loop over the selected rows: the rows come in no
\* promised order, so the next row whose socket is gone is any of them (row),
\* after passing any of those whose socket is there (skipped); the loop ends
\* when no row of a gone socket is left.
NoRow == [user_id |-> 0, socket_id |-> 0]

sweepOrphans(S, rows, row, skipped) ==
    LET gone == {r \in rows : S.sockets[r.socket_id] # "open"}
    IN  IF gone = {} THEN SweepIdle
        ELSE [pc |-> "delete", conn |-> row.socket_id, todo |-> {},
              rows |-> rows \ ({row} \cup skipped)]

\* a loop that takes any row for an orphan without looking for its socket
OrphanChoice_AnyRow(S, rows, row, skipped) ==
    /\ skipped = {}
    /\ IF rows = {} THEN row = NoRow ELSE row \in rows

\* what the orphan loop does next with the rows it still has to visit:
\* delete `row`, of a socket that is not in io.sockets.sockets, after passing
\* over `skipped`, rows of sockets that are; or end (NoRow)
OrphanChoice(S, rows, row, skipped) ==
    LET gone == {r \in rows : S.sockets[r.socket_id] # "open"}
    IN  /\ skipped \subseteq rows \ gone
        /\ IF gone = {} THEN row = NoRow /\ skipped = {} ELSE row \in gone

\* `await db.selectFrom('user_connections')` returns the rows or throws
SweepSelectDone(throws, row, skipped) ==
    /\ sweep.pc = "select"
    /\ IF throws
       THEN /\ row = NoRow /\ skipped = {}
            /\ sweep' = SweepIdle
       ELSE /\ OrphanChoice(State, userConnections, row, skipped)
            /\ sweep' = sweepOrphans(State, userConnections, row, skipped)
    /\ Commit(State)
    /\ out' = <<>>
    /\ timerRan' = 0
    /\ received' = NoEvent
    /\ UNCHANGED clientVars
    /\ UNCHANGED <<jwtSecret, handshakes, messages, sends, cleanupInterval,
                   shutdown, authFailed>>

\* the orphan loop passing over a row without deleting it
SweepDeleteDone_KeepsRow(throws, row, skipped) ==
    /\ sweep.pc = "delete"
    /\ IF throws
       THEN /\ row = NoRow /\ skipped = {}
            /\ sweep' = SweepIdle
            /\ Commit(State)
       ELSE /\ OrphanChoice(State, sweep.rows, row, skipped)
            /\ sweep' = sweepOrphans(State, sweep.rows, row, skipped)
            /\ Commit(State)
    /\ out' = <<>>
    /\ timerRan' = 0
    /\ received' = NoEvent
    /\ UNCHANGED clientVars
    /\ UNCHANGED <<jwtSecret, handshakes, messages, sends, cleanupInterval,
                   shutdown, authFailed>>

\* `await db.deleteFrom('user_connections')` of an orphaned row returns or throws
SweepDeleteDone(throws, row, skipped) ==
    /\ sweep.pc = "delete"
    /\ IF throws
       THEN /\ row = NoRow /\ skipped = {}
            /\ sweep' = SweepIdle
            /\ Commit(State)
       ELSE LET S == [State EXCEPT
                        !.userConnections = {r \in @ : r.socket_id # sweep.conn}]
            IN  /\ OrphanChoice(S, sweep.rows, row, skipped)
                /\ sweep' = sweepOrphans(S, sweep.rows, row, skipped)
                /\ Commit(S)
    /\ out' = <<>>
    /\ timerRan' = 0
    /\ received' = NoEvent
    /\ UNCHANGED clientVars
    /\ UNCHANGED <<jwtSecret, handshakes, messages, sends, cleanupInterval,
                   shutdown, authFailed>>

\* --------------------------------------------------------------- shutdown
\* this.io.disconnectSockets(true)
RECURSIVE disconnectSockets(_, _)
disconnectSockets(S, todo) ==
    IF todo = {} THEN S
    ELSE disconnectSockets(socketClose(S, Min(todo)), todo \ {Min(todo)})

\* shutdown(), the loop over this.connectedUsers.keys(), up to the next
\* cleanupConnection that has a row to delete, or to the end
RECURSIVE shutdownLoop(_, _)
shutdownLoop(S, todo) ==
    IF todo = {} THEN [S |-> S, shutdown |-> [pc |-> "done", conn |-> 0, todo |-> {}]]
    ELSE LET c == Min(todo)
             rest == todo \ {c}
         IN  IF c \notin DOMAIN S.connectedUsers THEN shutdownLoop(S, rest)
             ELSE IF cleanupAwaits(S, c)
             THEN [S |-> cleanupConnection(S, c),
                   shutdown |-> [pc |-> "cleanup", conn |-> c, todo |-> rest]]
             ELSE shutdownLoop(cleanupConnection(S, c), rest)

\* shutdown() up to its first await
Shutdown ==
    /\ shutdown.pc = "none"
    /\ cleanupInterval' = FALSE
    /\ sweep' = IF sweep.pc = "due" THEN SweepIdle ELSE sweep
    /\ LET S == disconnectSockets(State, Sockets)
           r == shutdownLoop(S, DOMAIN S.connectedUsers)
       IN  /\ Commit(r.S)
           /\ shutdown' = r.shutdown
    /\ out' = <<>>
    /\ timerRan' = 0
    /\ received' = NoEvent
    /\ UNCHANGED clientVars
    /\ UNCHANGED <<jwtSecret, handshakes, messages, sends, authFailed>>

\* the row delete of the cleanupConnection awaited by shutdown() returns or throws
ShutdownCleanupDone(ok) ==
    /\ shutdown.pc = "cleanup"
    /\ LET r == shutdownLoop(IF ok THEN cleanupDeleted(State, shutdown.conn) ELSE State,
                             shutdown.todo)
       IN  /\ Commit(r.S)
           /\ shutdown' = r.shutdown
    /\ out' = <<>>
    /\ timerRan' = 0
    /\ received' = NoEvent
    /\ UNCHANGED clientVars
    /\ UNCHANGED <<jwtSecret, handshakes, messages, sends, cleanupInterval,
                   sweep, authFailed>>

\* -------------------------------------------------------------------- Next
\* the row the sweep deletes next, when it deletes one, and the rows it
\* passes before: rows of the table, or rows it selected that are gone since
SweepRows == {NoRow} \cup userConnections \cup sweep.rows
SweepSkips == SUBSET (userConnections \cup sweep.rows)

Lifecycle ==
    \/ \E c \in Conns, req \in ConnectionRequests : Connection(c, req)
    \/ \E c \in Conns : Disconnect(c)
    \/ \E c \in Conns, ok \in BOOLEAN : CleanupDone(c, ok)
    \/ \E c \in Conns, token \in Tokens, rateOk \in BOOLEAN : Authenticate(c, token, rateOk)
    \/ \E h \in handshakes, throws \in BOOLEAN : AuthLookupDone(h, throws)
    \/ \E h \in handshakes, throws \in BOOLEAN : AuthInsertDone(h, throws)
    \/ \E c \in Conns : Pong(c)
    \/ \E c \in Conns : HeartbeatFire(c)
    \/ \E c \in Conns, late \in BOOLEAN : IdleTimerFire(c, late)
    \/ Tick
    \/ SweepStart
    \/ \E ok \in BOOLEAN : SweepStaleDone(ok)
    \/ \E throws \in BOOLEAN, row \in SweepRows, skipped \in SweepSkips :
          SweepSelectDone(throws, row, skipped)
    \/ \E throws \in BOOLEAN, row \in SweepRows, skipped \in SweepSkips :
          SweepDeleteDone(throws, row, skipped)
    \/ Shutdown
    \/ \E ok \in BOOLEAN : ShutdownCleanupDone(ok)

\* one socket, from connection to teardown, with the rooms it joins
Next ==
    \/ Lifecycle
    \/ \E c \in Conns, id \in HelpRequestIds : JoinHelpRequest(c, id)
    \/ \E c \in Conns, id \in HelpRequestIds : LeaveHelpRequest(c, id)

Spec == Init /\ [][Next]_vars

\* one socket, from connection to teardown, with its retry_connection events
RetryNext ==
    \/ Lifecycle
    \/ \E c \in Conns : RetryConnection(c)
    \/ \E c \in Conns, i \in 1..MaxRetryTimers : RetryTimerFire(c, i)

RetrySpec == Init /\ [][RetryNext]_vars

\* Message relay among several sockets.  It starts where every socket has
\* connected and each has either completed a handshake (as user
\* established[c]) or not begun one (0), before any time has passed; from
\* there the sockets join and leave rooms, send messages and close.
RelayInit ==
    /\ jwtSecret = TRUE
    /\ \E established \in [Sockets -> 0..NumUsers] :
          /\ connectedUsers =
                [c \in Sockets |->
                    [userId |-> established[c], lastActivity |-> 0,
                     heartbeatInterval |-> TRUE, idleTimeout |-> TRUE]]
          /\ rooms = [c \in Sockets |->
                        IF established[c] = 0 THEN {}
                        ELSE {UserRoom(established[c])}]
          /\ userConnections =
                {[user_id |-> established[c], socket_id |-> c] :
                    c \in {d \in Sockets : established[d] # 0}}
    /\ sockets = [c \in Sockets |-> "open"]
    /\ connectionRetries = <<>>
    /\ heartbeatTimer = [c \in Sockets |-> TRUE]
    /\ idleTimer = [c \in Sockets |-> IdleTimeoutDelay]
    /\ retryTimers = [c \in Sockets |-> <<>>]
    /\ handshakes = {}
    /\ pendingCleanup = {}
    /\ messages = {}
    /\ sends = {}
    /\ cleanupInterval = TRUE
    /\ sweep = SweepIdle
    /\ shutdown = [pc |-> "none", conn |-> 0, todo |-> {}]
    /\ out = <<>>
    /\ timerRan = 0
    /\ received = NoEvent
    /\ authFailed = {}
    /\ clientToken = FALSE
    /\ health = HealthInit
    /\ pollingIntervalRef = FALSE
    /\ pollIntervals = 0
    /\ retryTimeoutRef = 0
    /\ retryTimeouts = 0
    /\ polls = 0
    /\ reconnects = 0
    /\ clientMessages = <<>>
    /\ lastMessageTimestamp = 0
    /\ fetches = <<>>
    /\ chat = 0
    /\ broadcast = NoBroadcast

RelayNext ==
    \/ \E c \in Sockets : Disconnect(c)
    \/ \E c \in Sockets, ok \in BOOLEAN : CleanupDone(c, ok)
    \/ \E c \in Sockets, id \in HelpRequestIds : JoinHelpRequest(c, id)
    \/ \E c \in Sockets, id \in HelpRequestIds : LeaveHelpRequest(c, id)
    \/ \E c \in Sockets, data \in SendData, rateOk \in BOOLEAN : SendMessage(c, data, rateOk)
    \/ \E m \in sends, result \in InsertResults, at \in Stamps : SendInsertDone(m, result, at)
    \/ \E m \in sends, result \in InsertResults : SendSenderDone(m, result)

RelaySpec == RelayInit /\ [][RelayNext]_vars

\* The sweep at work on established connections: the sockets of RelayInit
\* close and go idle while time passes and the sweep keeps running (no
\* shutdown).  Time does pass, a due callback does run and an awaited answer
\* does come (WF); the store answers a select and a delete of the sweep
\* without throwing again and again (SF), though not every time.
SweepNext ==
    \/ \E c \in Sockets : Disconnect(c)
    \/ \E c \in Sockets, ok \in BOOLEAN : CleanupDone(c, ok)
    \/ \E c \in Sockets, late \in BOOLEAN : IdleTimerFire(c, late)
    \/ Tick
    \/ SweepStart
    \/ \E ok \in BOOLEAN : SweepStaleDone(ok)
    \/ \E throws \in BOOLEAN, row \in SweepRows, skipped \in SweepSkips :
          SweepSelectDone(throws, row, skipped)
    \/ \E throws \in BOOLEAN, row \in SweepRows, skipped \in SweepSkips :
          SweepDeleteDone(throws, row, skipped)

SweepFairness ==
    /\ WF_vars(Tick)
    /\ WF_vars(\E c \in Sockets, late \in BOOLEAN : IdleTimerFire(c, late))
    /\ WF_vars(SweepStart)
    /\ WF_vars(\E ok \in BOOLEAN : SweepStaleDone(ok))
    /\ SF_vars(\E row \in SweepRows, skipped \in SweepSkips :
                  SweepSelectDone(FALSE, row, skipped))
    /\ SF_vars(\E row \in SweepRows, skipped \in SweepSkips :
                  SweepDeleteDone(FALSE, row, skipped))

SweepSpec == RelayInit /\ [][SweepNext]_vars /\ SweepFairness

\* the sockets that connect in SilentSpec
SilentPeers == {1, 2}

\* Silent peers: sockets connect and then send nothing, no pong and no other
\* event, and do not close on their side; the heartbeat pings them, their
\* idle timeouts run and the sweep comes round (nobody is authenticated, so
\* it has no row delete to await).  Time passes and a due callback runs (WF);
\* the sweep's select is answered.
SilentNext ==
    \/ \E c \in SilentPeers, req \in ConnectionRequests : Connection(c, req)
    \/ \E c \in SilentPeers : HeartbeatFire(c)
    \/ \E c \in SilentPeers, late \in BOOLEAN : IdleTimerFire(c, late)
    \/ Tick
    \/ SweepStart
    \/ \E throws \in BOOLEAN, row \in SweepRows, skipped \in SweepSkips :
          SweepSelectDone(throws, row, skipped)

SilentFairness ==
    /\ WF_vars(Tick)
    /\ WF_vars(\E c \in SilentPeers, late \in BOOLEAN : IdleTimerFire(c, late))
    /\ WF_vars(SweepStart)
    /\ WF_vars(\E throws \in BOOLEAN, row \in SweepRows, skipped \in SweepSkips :
                  SweepSelectDone(throws, row, skipped))

SilentSpec == Init /\ [][SilentNext]_vars /\ SilentFairness

\* ------------------------------------------------------- the polling client
ClientState ==
    [token |-> clientToken, health |-> health, pollingIntervalRef |-> pollingIntervalRef,
     pollIntervals |-> pollIntervals, retryTimeoutRef |-> retryTimeoutRef,
     retryTimeouts |-> retryTimeouts, polls |-> polls, reconnects |-> reconnects,
     messages |-> clientMessages, lastMessageTimestamp |-> lastMessageTimestamp,
     fetches |-> fetches, chat |-> chat]

ClientCommit(C) ==
    /\ clientToken' = C.token
    /\ health' = C.health
    /\ pollingIntervalRef' = C.pollingIntervalRef
    /\ pollIntervals' = C.pollIntervals
    /\ retryTimeoutRef' = C.retryTimeoutRef
    /\ retryTimeouts' = C.retryTimeouts
    /\ polls' = C.polls
    /\ reconnects' = C.reconnects
    /\ clientMessages' = C.messages
    /\ lastMessageTimestamp' = C.lastMessageTimestamp
    /\ fetches' = C.fetches
    /\ chat' = C.chat
    /\ UNCHANGED httpVars

\* clearInterval(pollingIntervalRef.current) when it holds one
stopPolling(C) ==
    IF C.pollingIntervalRef
    THEN [C EXCEPT !.pollingIntervalRef = FALSE, !.pollIntervals = @ - 1]
    ELSE C

\* a start that leaves the interval of the start before it running
startPolling_NoStop(C) ==
    [C EXCEPT !.polls = @ + 1, !.pollingIntervalRef = TRUE, !.pollIntervals = @ + 1]

\* stopPolling(); poll(); pollingIntervalRef.current = setInterval(poll, 5000)
startPolling(C) ==
    [stopPolling(C) EXCEPT !.polls = @ + 1, !.pollingIntervalRef = TRUE,
                           !.pollIntervals = @ + 1]

initializeConnection(C) ==
    startPolling([C EXCEPT !.health.connected = TRUE,
                           !.health.authenticated = TRUE,
                           !.health.lastError = "null",
                           !.health.retryAttempts = 0])

\* clearTimeout(retryTimeoutRef.current) when it holds one; stopPolling();
\* setHealth to the initial value; setMessages([]); the cursor to null
cleanup(C) ==
    LET C1 == IF C.retryTimeoutRef # 0
              THEN [C EXCEPT !.retryTimeoutRef = 0, !.retryTimeouts = @ - 1]
              ELSE C
    IN  [stopPolling(C1) EXCEPT !.health = HealthInit, !.messages = <<>>,
                                !.lastMessageTimestamp = 0]

\* Math.min(2000 * Math.pow(2, newRetryAttempts - 1), 32000)
ReconnectDelay(newRetryAttempts) ==
    Min({BaseDelay * Pow2(newRetryAttempts - 1), MaxDelay})

handleReconnection(C) ==
    IF C.retryTimeoutRef # 0 THEN C
    ELSE LET newRetryAttempts == C.health.retryAttempts + 1
         IN  IF newRetryAttempts >= ClientMaxRetries
             THEN [C EXCEPT !.health.retryAttempts = newRetryAttempts,
                            !.health.lastError = "Maximum reconnection attempts reached"]
             ELSE [C EXCEPT !.retryTimeoutRef = ReconnectDelay(newRetryAttempts),
                            !.retryTimeouts = @ + 1,
                            !.health.retryAttempts = newRetryAttempts,
                            !.health.lastError = "Reconnecting"]

\* useEffect on [token]: the previous effect's cleanup, then this effect
TokenChange(t) ==
    /\ t # clientToken
    /\ polls < MaxPolls
    /\ LET C == [ClientState EXCEPT !.token = t]
       IN  ClientCommit(IF t THEN initializeConnection(C) ELSE cleanup(cleanup(C)))
    /\ UNCHANGED serverVars

\* the returned cleanup(), called by the component
Cleanup ==
    /\ ClientCommit(cleanup(ClientState))
    /\ UNCHANGED serverVars

ForceReconnect ==
    /\ clientToken => reconnects < MaxReconnects
    /\ LET C == cleanup([ClientState EXCEPT !.health.retryAttempts = 0,
                                            !.health.lastError = "null"])
       IN  ClientCommit(IF clientToken THEN [C EXCEPT !.reconnects = @ + 1] ELSE C)
    /\ UNCHANGED serverVars

\* the setTimeout callback of forceReconnect
ReconnectFire ==
    /\ reconnects > 0
    /\ polls < MaxPolls
    /\ ClientCommit(initializeConnection([ClientState EXCEPT !.reconnects = @ - 1]))
    /\ UNCHANGED serverVars

\* the setInterval callback: poll()
IntervalFire ==
    /\ pollIntervals > 0
    /\ polls < MaxPolls
    /\ ClientCommit([ClientState EXCEPT !.polls = @ + 1])
    /\ UNCHANGED serverVars

\* poll() resumes: both fetches answered ok, or one failed
PollDone(ok) ==
    /\ polls > 0
    /\ LET C == [ClientState EXCEPT !.polls = @ - 1]
       IN  IF ok
           THEN ClientCommit([C EXCEPT !.health.connected = TRUE,
                                       !.health.lastError = "null",
                                       !.health.retryAttempts = 0])
           ELSE /\ retryTimeoutRef = 0 => health.retryAttempts < MaxAttempts
                /\ ClientCommit(handleReconnection(
                       [C EXCEPT !.health.connected = FALSE,
                                 !.health.lastError = "Polling failed"]))
    /\ UNCHANGED serverVars

\* the setTimeout callback of handleReconnection
RetryTimeoutFire ==
    /\ retryTimeouts > 0
    /\ polls < MaxPolls
    /\ ClientCommit(startPolling([ClientState EXCEPT !.retryTimeoutRef = 0,
                                                      !.retryTimeouts = @ - 1]))
    /\ UNCHANGED serverVars

ClientNext ==
    \/ \E t \in BOOLEAN : TokenChange(t)
    \/ Cleanup
    \/ ForceReconnect
    \/ ReconnectFire
    \/ IntervalFire
    \/ \E ok \in BOOLEAN : PollDone(ok)
    \/ RetryTimeoutFire

ClientSpec == Init /\ [][ClientNext]_vars

\* The two backoff schedules side by side: one socket with its
\* retry_connection events, and the polling client.
BackoffNext ==
    \/ \E c \in Conns, req \in ConnectionRequests : Connection(c, req)
    \/ \E c \in Conns : Disconnect(c)
    \/ \E c \in Conns : RetryConnection(c)
    \/ \E c \in Conns, i \in 1..MaxRetryTimers : RetryTimerFire(c, i)
    \/ ClientNext

BackoffSpec == Init /\ [][BackoffNext]_vars

\* Recovery on both sides: the handshakes and retry_connection events of one
\* socket that stays open, beside the hook's poll loop.  The tokens are those
\* that pass the checks of their form and signature.
VerifiedTokens == {t \in Tokens : t.formatOk /\ t.verifies}

ResetNext ==
    \/ \E c \in Conns, req \in ConnectionRequests : Connection(c, req)
    \/ \E c \in Conns, token \in VerifiedTokens, rateOk \in BOOLEAN :
          Authenticate(c, token, rateOk)
    \/ \E h \in handshakes, throws \in BOOLEAN : AuthLookupDone(h, throws)
    \/ \E h \in handshakes, throws \in BOOLEAN : AuthInsertDone(h, throws)
    \/ \E c \in Conns : RetryConnection(c)
    \/ \E c \in Conns, i \in 1..MaxRetryTimers : RetryTimerFire(c, i)
    \/ \E t \in BOOLEAN : TokenChange(t)
    \/ IntervalFire
    \/ \E ok \in BOOLEAN : PollDone(ok)
    \/ RetryTimeoutFire

ResetSpec == Init /\ [][ResetNext]_vars

\* the socket that sends `authenticate` in ScanSpec, and the tokens it sends:
\* those of users of the directory
ScanPeers == {NumSockets}
ValidTokens == {t \in VerifiedTokens : t.userId \in DirectoryUsers}

\* The sweep's scan of user_connections among sockets that authenticate and
\* disconnect meanwhile: the sockets of RelayInit, the sweep, and the
\* handshakes of one of them, up to the time the first idle timeout is due
\* (the sweeps of the first half hour: no entry is stale yet).
ScanNext ==
    \/ \E c \in Sockets \ ScanPeers : Disconnect(c)
    \/ \E c \in Sockets, ok \in BOOLEAN : CleanupDone(c, ok)
    \/ Tick
    \/ SweepStart
    \/ \E throws \in BOOLEAN, row \in SweepRows, skipped \in SweepSkips :
          SweepSelectDone(throws, row, skipped)
    \/ \E throws \in BOOLEAN, row \in SweepRows, skipped \in SweepSkips :
          SweepDeleteDone(throws, row, skipped)
    \/ \E c \in ScanPeers, token \in ValidTokens : Authenticate(c, token, TRUE)
    \/ \E h \in handshakes, throws \in BOOLEAN : AuthLookupDone(h, throws)
    \/ \E h \in handshakes, throws \in BOOLEAN : AuthInsertDone(h, throws)

ScanSpec == RelayInit /\ [][ScanNext]_vars

\* ------------------------------------------------- the polled message list
\* The hook's message stream.  pollMessages is called by poll() and by the
\* timeouts of sendMessage and joinRoom; here each call is followed from its
\* request to the merge of its response.  The endpoint keeps the messages in
\* the order of their timestamps (a message's timestamp is its id here) and
\* answers a request with those newer than its `since`, all of them when
\* `since` is empty; whether the one at `since` itself is among them is left
\* open.
Range(seq) == {seq[i] : i \in DOMAIN seq}

\* a message is posted and stored
ChatPost ==
    /\ chat < NumChat
    /\ ClientCommit([ClientState EXCEPT !.chat = @ + 1])
    /\ UNCHANGED serverVars

\* pollMessages up to `await fetch(...?since=...)`
PollMessages ==
    /\ Len(fetches) < MaxFetches
    /\ ClientCommit([ClientState EXCEPT
          !.fetches = Append(@, [since |-> lastMessageTimestamp, pc |-> "sent",
                                 data |-> <<>>])])
    /\ UNCHANGED serverVars

\* GET /chat/messages?since= : the messages newer than `since`, oldest first
MessagesSince(n, since, inclusive) ==
    LET from == IF since = 0 THEN 1 ELSE IF inclusive THEN since ELSE since + 1
    IN  [i \in 1..(IF n >= from THEN n - from + 1 ELSE 0) |-> from + i - 1]

\* the endpoint answers request i; its response is on its way
ChatRespond(i, inclusive) ==
    /\ i \in DOMAIN fetches
    /\ fetches[i].pc = "sent"
    /\ ClientCommit([ClientState EXCEPT
          !.fetches[i] = [since |-> @.since, pc |-> "answered",
                          data |-> MessagesSince(chat, @.since, inclusive)]])
    /\ UNCHANGED serverVars

\* a merge that appends what came, seen before or not
MergeById_AppendAll(prev, data) == prev \o data

\* setMessages(prev => [...prev, ...data.messages.filter(not in prev)])
MergeById(prev, data) ==
    prev \o SelectSeq(data, LAMBDA m : m \notin Range(prev))

\* pollMessages resumes with the response of request i (any of those
\* answered: responses overtake each other), or with a failed one
PollMessagesDone(i, ok) ==
    /\ i \in DOMAIN fetches
    /\ fetches[i].pc = "answered"
    /\ LET data == fetches[i].data
           C == [ClientState EXCEPT !.fetches = Remove(@, i)]
       IN  ClientCommit(
               IF ok /\ Len(data) > 0
               THEN [C EXCEPT !.messages = MergeById(@, data),
                              !.lastMessageTimestamp = data[Len(data)]]
               ELSE C)
    /\ UNCHANGED serverVars

\* joinRoom resumes after its POST was answered ok
JoinRoom ==
    /\ ClientCommit([ClientState EXCEPT !.lastMessageTimestamp = 0,
                                        !.messages = <<>>])
    /\ UNCHANGED serverVars

PollNext ==
    \/ ChatPost
    \/ PollMessages
    \/ \E i \in 1..MaxFetches, inclusive \in BOOLEAN : ChatRespond(i, inclusive)
    \/ \E i \in 1..MaxFetches, ok \in BOOLEAN : PollMessagesDone(i, ok)
    \/ JoinRoom
    \/ Cleanup

PollSpec == Init /\ [][PollNext]_vars

\* ------------------------------------------------- the broadcast route
\* POST /api/communications/escalate/broadcast with a valid bearer token.  Of
\* the request body the route reads `recipients` (an array of so many
\* numbers, or something that is no array) and `body` (there or not).
BroadcastRequests ==
    [isArray : {TRUE}, count : 0..(MaxRecipients + ExtraRecipients), hasBody : BOOLEAN]
    \cup [isArray : {FALSE}, count : {0}, hasBody : BOOLEAN]

\* a recipient check that counts 100 as too many
checkRecipients_Below(req) ==
    IF ~req.isArray \/ req.count = 0 THEN "non-empty array"
    ELSE IF req.count >= MaxRecipients THEN "Maximum 100 recipients"
    ELSE ""

\* the recipient-count check: the error message (the part of it that is
\* promised), or "" when it passes
checkRecipients(req) ==
    IF ~req.isArray \/ req.count = 0 THEN "non-empty array"
    ELSE IF req.count > MaxRecipients THEN "Maximum 100 recipients"
    ELSE ""

checkBody(req) == IF req.hasBody THEN "" ELSE "body is required"

\* the request arrives
BroadcastRequest(req) ==
    /\ broadcast.pc = "none"
    /\ broadcast' = [NoBroadcast EXCEPT !.pc = "request", !.req = req]
    /\ UNCHANGED <<clientToken, health, pollingIntervalRef, pollIntervals,
                   retryTimeoutRef, retryTimeouts, polls, reconnects,
                   clientMessages, lastMessageTimestamp, fetches, chat>>
    /\ UNCHANGED serverVars

\* the route answers: 400 with the message of a failed check (which of the
\* two checks comes first is bodyFirst), or it sends one SMS to each
\* recipient and answers 200
BroadcastRespond(bodyFirst) ==
    /\ broadcast.pc = "request"
    /\ LET req == broadcast.req
           first == IF bodyFirst THEN checkBody(req) ELSE checkRecipients(req)
           second == IF bodyFirst THEN checkRecipients(req) ELSE checkBody(req)
           error == IF first # "" THEN first ELSE second
       IN  broadcast' = [pc |-> "answered", req |-> req,
                         status |-> IF error = "" THEN 200 ELSE 400,
                         error |-> error,
                         sent |-> IF error = "" THEN req.count ELSE 0]
    /\ UNCHANGED <<clientToken, health, pollingIntervalRef, pollIntervals,
                   retryTimeoutRef, retryTimeouts, polls, reconnects,
                   clientMessages, lastMessageTimestamp, fetches, chat>>
    /\ UNCHANGED serverVars

BroadcastNext ==
    \/ \E req \in BroadcastRequests : BroadcastRequest(req)
    \/ \E bodyFirst \in BOOLEAN : BroadcastRespond(bodyFirst)

BroadcastSpec == Init /\ [][BroadcastNext]_vars

\* ================================================================== claims
Emitted(ev, c) == \E i \in DOMAIN out : out[i].ev = ev /\ out[i].to = c
EmittedNext(ev, c) == \E i \in DOMAIN out' : out'[i].ev = ev /\ out'[i].to = c
Registered(c) == c \in DOMAIN connectedUsers
Removed(c) == sockets[c] = "closed" /\ c \notin DOMAIN connectedUsers
UserIdOf(users, c) == IF c \in DOMAIN users THEN users[c].userId ELSE 0

\* C1: when the users lookup of a handshake returns on a socket whose userId
\* is already set, the handshake ends there with an auth_error and the userId
\* stays what it was (no second authentication of one socket).
C1_ReauthRejected ==
    [][\A h \in handshakes \ handshakes' :
          (h.pc = "lookup" /\ UserIdOf(connectedUsers, h.conn) # 0)
          => /\ EmittedNext("auth_error", h.conn)
             /\ \A h2 \in handshakes' : h2.pc = "insert" => h2 \in handshakes
             /\ UserIdOf(connectedUsers', h.conn) = UserIdOf(connectedUsers, h.conn)]_vars

\* C2: no join_help_request is answered 'Not authenticated' while a handshake
\* with a valid token of an existing user, begun earlier on the same socket,
\* still awaits the users lookup or the user_connections insert.
C2_ArrivalOrder ==
    \A i \in DOMAIN out :
        (out[i].ev = "error" /\ out[i].msg = "Not authenticated")
        => ~\E h \in handshakes : h.conn = out[i].to /\ h.userId \in DirectoryUsers

\* C3: once health.retryAttempts has reached maxRetries, retryAttempts does
\* not grow and no timer (the poll interval, the reconnection timeout) starts
\* a poll, until forceReconnect, cleanup or a change of token resets it.
ExplicitReset == ForceReconnect \/ Cleanup \/ \E t \in BOOLEAN : TokenChange(t)

C3_ExhaustionTerminal ==
    [][(health.retryAttempts >= ClientMaxRetries /\ ~ExplicitReset)
       => /\ health'.retryAttempts <= health.retryAttempts
          /\ polls' <= polls]_vars

\* C4: once a socket has closed and nothing that could still remove it is
\* left to run (no cleanupConnection awaits its delete, no handshake awaits,
\* the sweep is stopped and shutdown() has returned), it is out of
\* connectedUsers and of connectionRetries and has no heartbeat and no idle
\* timeout, whatever the row deletes of cleanupConnection answered.
AtRest ==
    /\ pendingCleanup = {}
    /\ handshakes = {}
    /\ ~cleanupInterval
    /\ sweep = SweepIdle
    /\ shutdown.pc = "done"

C4_ClosedRemovedAtRest ==
    \A c \in Conns :
        (sockets[c] = "closed" /\ AtRest)
        => /\ c \notin DOMAIN connectedUsers
           /\ c \notin DOMAIN connectionRetries
           /\ ~heartbeatTimer[c]
           /\ idleTimer[c] = NoTimer

\* C5: a socket that is out of connectedUsers has no row in user_connections.
C5_NoRowAfterRemoval ==
    \A c \in Conns :
        Removed(c) => \A r \in userConnections : r.socket_id # c

C7_PersistFailureUnauthenticated ==
    [][\A h \in handshakes \ handshakes' :
          (h.pc = "insert" /\ EmittedNext("auth_error", h.conn))
          => UserIdOf(connectedUsers', h.conn) = 0]_vars

\* C8: a handshake that fails for one of the listed reasons emits that one
\* auth_error and nothing else, and changes neither the socket's entry in
\* connectedUsers nor user_connections nor any room; and a handshake whose
\* checks pass and whose insert returns emits `authenticated` with its userId,
\* also on a socket where handshakes failed before.
ListedFailures ==
    {"Too many authentication attempts", "Invalid token format",
     "Authentication service unavailable", "Invalid authentication token",
     "Invalid user ID in token", "User not found"}

C8_FailedHandshake ==
    [][/\ \A c \in Conns :
            (\E i \in DOMAIN out' : /\ out'[i].ev = "auth_error"
                                     /\ out'[i].to = c
                                     /\ out'[i].msg \in ListedFailures)
            => /\ Len(out') = 1
               /\ sockets'[c] = sockets[c]
               /\ (c \in DOMAIN connectedUsers') = (c \in DOMAIN connectedUsers)
               /\ UserIdOf(connectedUsers', c) = UserIdOf(connectedUsers, c)
               /\ userConnections' = userConnections
               /\ rooms' = rooms
       /\ \A h \in handshakes \ handshakes' :
            (h.pc = "insert" /\ ~EmittedNext("auth_error", h.conn))
            => /\ Len(out') = 1
               /\ out'[1].ev = "authenticated"
               /\ out'[1].to = h.conn
               /\ out'[1].arg = h.userId
       /\ \A c \in authFailed, token \in Tokens :
            (/\ jwtSecret /\ token.formatOk /\ token.verifies
             /\ token.userId \in DirectoryUsers
             /\ Authenticate(c, token, TRUE))
            => /\ out' = <<>>
               /\ \E h \in handshakes' \ handshakes :
                     h.conn = c /\ h.userId = token.userId]_vars

\* a handshake has just succeeded on an open socket where one failed before
C8_Witness ==
    \E c \in Conns :
        /\ c \in authFailed
        /\ sockets[c] = "open"
        /\ Emitted("authenticated", c)
        /\ UserIdOf(connectedUsers, c) # 0

\* C9: `authenticated` is emitted to a socket only in a state where the socket
\* is in connectedUsers with that userId, its row is in user_connections, it is
\* in the user's room and it has no entry in connectionRetries.
C9_AuthenticatedMeansBound ==
    \A i \in DOMAIN out :
        out[i].ev = "authenticated"
        => LET c == out[i].to
               u == out[i].arg
           IN  /\ c \in DOMAIN connectedUsers
               /\ connectedUsers[c].userId = u
               /\ [user_id |-> u, socket_id |-> c] \in userConnections
               /\ UserRoom(u) \in rooms[c]
               /\ c \notin DOMAIN connectionRetries

\* C10: without JWT_SECRET every `authenticate` is answered by one auth_error
\* in the same run of the handler, and no userId is set, no row is in
\* user_connections, no socket is in a room and no `authenticated` is emitted.
C10_NoSecretNoAuth ==
    [][~jwtSecret
       => /\ handshakes' = {}
          /\ \A c \in DOMAIN connectedUsers' : connectedUsers'[c].userId = 0
          /\ userConnections' = {}
          /\ \A c \in Sockets : rooms'[c] = {}
          /\ \A i \in DOMAIN out' : out'[i].ev # "authenticated"
          /\ \A c \in Conns :
                (\E token \in Tokens, rateOk \in BOOLEAN : Authenticate(c, token, rateOk))
                => /\ Len(out') = 1
                   /\ out'[1].ev = "auth_error"
                   /\ out'[1].to = c]_vars

\* without JWT_SECRET, a well-formed token has just been refused
C10_Witness ==
    /\ ~jwtSecret
    /\ \E i \in DOMAIN out : out[i].msg = "Authentication service unavailable"

\* the positions of `out` (taken after the step) holding event ev for socket c
EventsNext(ev, c) == {i \in DOMAIN out' : out'[i].ev = ev /\ out'[i].to = c}

\* the sends whose handler has come to its end in this step, after its insert
\* had stored the row
Completed == {m \in sends \ sends' : m.pc = "sender"}

\* the sends whose handler has ended in this step at the insert (it threw or
\* returned no row)
InsertFailed ==
    {m \in sends \ sends' :
        m.pc = "insert" /\ ~\E n \in sends' \ sends : n.conn = m.conn /\ n.pc = "sender"}

\* C11: when the handler of a send whose row was stored comes to its end,
\* every socket in the target room at that moment is sent exactly one
\* new_message with the sanitized text and the row's id, and the sender
\* exactly one message_sent with that id and the row's created_at.
C11_RoundTrip ==
    [][\A m \in Completed :
          /\ \A c \in Sockets :
               (sockets[c] = "open" /\ HelpRoom(m.helpRequestId) \in rooms[c])
               => /\ Cardinality(EventsNext("new_message", c)) = 1
                  /\ \A i \in EventsNext("new_message", c) :
                        out'[i].msg = m.sanitized /\ out'[i].arg = m.id
          /\ Cardinality(EventsNext("message_sent", m.conn)) = 1
          /\ \A i \in EventsNext("message_sent", m.conn) :
                out'[i].arg = m.id /\ out'[i].timestamp = m.created_at]_vars

\* C12: a new_message is emitted only by the step that ends a stored send,
\* and only to sockets that are in the send's room at that step; no other
\* socket gets one.
C12_RoomIsolation ==
    [][\A i \in DOMAIN out' :
          out'[i].ev = "new_message"
          => \E m \in Completed :
                /\ out'[i].arg = m.id
                /\ sockets[out'[i].to] = "open"
                /\ HelpRoom(m.helpRequestId) \in rooms[out'[i].to]]_vars

\* two sockets have just been sent a new_message and a third, open and
\* authenticated, has not
C12_Witness ==
    \E c1, c2, c3 \in Sockets :
        /\ c1 # c2
        /\ Emitted("new_message", c1)
        /\ Emitted("new_message", c2)
        /\ ~Emitted("new_message", c3)
        /\ sockets[c3] = "open"
        /\ UserIdOf(connectedUsers, c3) # 0

\* C13: when the messages insert throws or returns no row, the handler ends
\* there: it emits one error to the sender and nothing else (no new_message,
\* no message_sent), and no row is stored.
C13_PersistFailureAborts ==
    [][\A m \in InsertFailed :
          /\ Len(out') = 1
          /\ out'[1].ev = "error"
          /\ out'[1].to = m.conn
          /\ messages' = messages
          /\ \A n \in sends' : n.conn # m.conn \/ n \in sends]_vars

\* an insert has just failed while some socket is in the room of the send
C13_Witness ==
    /\ \E i \in DOMAIN out :
          out[i].ev = "error"
          /\ out[i].msg \in {"Failed to save message", "Failed to send message"}
    /\ messages = {}
    /\ sends = {}
    /\ \E c \in Sockets : \E n \in 1..NumRooms : HelpRoom(n) \in rooms[c]

\* C14: a send_message that fails one of the handler's checks (not
\* authenticated, rate limit, help request id, empty message, content) emits
\* exactly one error to the sender and nothing else, stores no row, starts no
\* insert and changes no room.
SendRejections ==
    {"Not authenticated", "Message rate limit exceeded", "Invalid help request ID",
     "Message cannot be empty", "Message contains inappropriate content"}

C14_RejectedSendNoEffect ==
    [][(received'.ev = "send_message" /\ sends' \subseteq sends)
       => /\ Len(out') = 1
          /\ out'[1].ev = "error"
          /\ out'[1].to = received'.from
          /\ out'[1].msg \in SendRejections
          /\ messages' = messages
          /\ sends' = sends
          /\ rooms' = rooms]_vars

\* a send has just been rejected for its content
C14_Witness ==
    /\ received.ev = "send_message"
    /\ \E i \in DOMAIN out : out[i].msg = "Message contains inappropriate content"

\* C15: once the row of a send is stored, the handler broadcasts new_message
\* and confirms with message_sent whatever the sender lookup does, with the
\* label 'Unknown' when the lookup gave no user.
C15_SenderLookupBestEffort ==
    [][\A m \in Completed :
          /\ Cardinality(EventsNext("message_sent", m.conn)) = 1
          /\ \A c \in Sockets :
               (sockets[c] = "open" /\ HelpRoom(m.helpRequestId) \in rooms[c])
               => \E i \in EventsNext("new_message", c) :
                     out'[i].sender \in {"username", "Unknown"}]_vars

IsHelpRoom(room) == room[1] = "help_request"

C17_LeaveIdempotent ==
    [][/\ received'.ev = "leave_help_request" =>
            /\ \A i \in DOMAIN out' : out'[i].ev # "error"
            /\ \A c \in Sockets \ {received'.from} : rooms'[c] = rooms[c]
            /\ rooms'[received'.from] \subseteq rooms[received'.from]
       /\ \A i \in DOMAIN out' :
            out'[i].ev = "room_left"
            => HelpRoom(out'[i].arg) \in rooms[out'[i].to]]_vars

\* C18: every inbound event of a registered socket (a touch) re-arms its idle
\* timeout to the full delay.
C18_TouchRearmsIdleTimer ==
    [][\A c \in Sockets :
          (/\ received'.ev # ""
           /\ received'.from = c
           /\ c \in DOMAIN connectedUsers'
           /\ sockets'[c] = "open")
          => idleTimer'[c] = IdleTimeoutDelay]_vars

\* C19: when the idle timeout of a registered socket finds it idle for longer
\* than the ceiling, it emits idle_timeout to the still connected socket and
\* closes it; and when the disconnect handler this starts has run to its end
\* (at once, or when its row delete has answered), connectedUsers has lost
\* exactly that socket's entry.
C19_IdleTimeoutRemovesOne ==
    [][\A c \in Sockets :
          /\ (timerRan' = c /\ EmittedNext("idle_timeout", c))
             => /\ \A i \in EventsNext("idle_timeout", c) : out'[i].live
                /\ sockets[c] = "open" /\ sockets'[c] = "closed"
                /\ c \in pendingCleanup'
                   \/ connectedUsers' = MapDelete(connectedUsers, c)
          /\ (/\ timerRan = c /\ Emitted("idle_timeout", c)
              /\ c \in pendingCleanup /\ c \notin pendingCleanup')
             => /\ c \in DOMAIN connectedUsers
                /\ connectedUsers' = MapDelete(connectedUsers, c)]_vars

\* C20: when the loop of a sweep over connectedUsers has ended, no entry idle
\* for longer than the staleness ceiling is left, except those of sockets it
\* has just disconnected, whose disconnect handler still awaits; and no step
\* of the loop changes an entry that is idle for no longer than the ceiling,
\* or its timers.
SweepLoopStep == sweep.pc \in {"due", "stale"} /\ sweep'.pc \in {"stale", "select"}

C20_SweepRemovesStale ==
    [][SweepLoopStep
       => /\ sweep'.pc = "select"
             => \A c \in DOMAIN connectedUsers' :
                   connectedUsers'[c].lastActivity > StaleIdleTime
                   => c \in pendingCleanup'
          /\ \A c \in DOMAIN connectedUsers :
                ~(connectedUsers[c].lastActivity > StaleIdleTime)
                => /\ c \in DOMAIN connectedUsers'
                   /\ connectedUsers'[c] = connectedUsers[c]
                   /\ heartbeatTimer'[c] = heartbeatTimer[c]
                   /\ idleTimer'[c] = idleTimer[c]
                   /\ sockets'[c] = sockets[c]]_vars

\* the rows of user_connections whose socket has no live transport
Orphans == {r \in userConnections : sockets[r.socket_id] # "open"}

\* C21: every row of user_connections whose socket has no live transport is
\* deleted in the end, while the sweep keeps running and the store keeps
\* answering it.
C21_OrphansDeleted ==
    \A c \in Sockets, u \in DirectoryUsers :
        ([user_id |-> u, socket_id |-> c] \in Orphans)
        ~> ([user_id |-> u, socket_id |-> c] \notin userConnections)

\* the row of a closed socket is gone though the socket's own cleanup failed
\* and has left its entry: only the sweep's orphan loop deletes a row alone
C21_Witness ==
    \E c \in Sockets :
        /\ sockets[c] = "closed"
        /\ c \in DOMAIN connectedUsers
        /\ connectedUsers[c].userId # 0
        /\ c \notin pendingCleanup
        /\ ~\E r \in userConnections : r.socket_id = c
        /\ sweep.pc \in {"idle", "delete"}

\* getConnectionCount()
getConnectionCount(users) == Cardinality(DOMAIN users)

\* C22: a connection attempt that validateConnection rejects (origin, or
\* referer in its place, not in the allow-list; hijack signature; connection
\* rate) is disconnected in the same step, which leaves getConnectionCount()
\* as it was; and a refused socket never has an entry in connectedUsers, a
\* heartbeat, an idle or retry timeout, a room, a handshake, a cleanup or a
\* row, and no event of it is ever handled.
C22_RefusedGetsNothing ==
    /\ [](\A c \in Sockets :
             sockets[c] = "refused"
             => /\ c \notin DOMAIN connectedUsers
                /\ c \notin DOMAIN connectionRetries
                /\ ~heartbeatTimer[c]
                /\ idleTimer[c] = NoTimer
                /\ retryTimers[c] = <<>>
                /\ rooms[c] = {}
                /\ c \notin pendingCleanup
                /\ ~\E h \in handshakes : h.conn = c
                /\ ~\E r \in userConnections : r.socket_id = c
                /\ received.from # c
                /\ timerRan # c)
    /\ [][\A c \in Conns :
             /\ \A req \in ConnectionRequests :
                   (~validateConnection(req) /\ Connection(c, req))
                   => /\ sockets'[c] = "refused"
                      /\ getConnectionCount(connectedUsers')
                            = getConnectionCount(connectedUsers)
                      /\ connectedUsers' = connectedUsers
                      /\ out' = <<>>
             /\ sockets[c] = "refused" => sockets'[c] = "refused"]_vars

\* a refused socket, after time has passed and a sweep has run
C22_Witness ==
    \E c \in Conns :
        /\ sockets[c] = "refused"
        /\ sweep.pc = "select"

\* the delays of the reconnection schedule, in ms, by failure number
ScheduleDelays == <<2000, 4000, 8000, 16000, 32000>>

Exhausted(h) == h.lastError = "Maximum reconnection attempts reached"

\* C23: a failing poll that finds no retry pending and retryAttempts = k below
\* maxRetries schedules the retry number k + 1 with the delay of that rank
\* (2, 4, 8, 16, 32 s) and does not exhaust; only a failure that finds
\* retryAttempts already at maxRetries exhausts.
C23_FiveRetries ==
    [][(PollDone(FALSE) /\ retryTimeoutRef = 0)
       => IF health.retryAttempts < ClientMaxRetries
          THEN /\ health'.retryAttempts = health.retryAttempts + 1
               /\ retryTimeoutRef' = ScheduleDelays[health'.retryAttempts]
               /\ ~Exhausted(health')
          ELSE /\ retryTimeoutRef' = 0
               /\ Exhausted(health')]_vars

\* C24: every connection_retry delay the server schedules and every
\* reconnection delay the client schedules is at most its cap, and is greater
\* than the delay of the attempt before it (k - 1 on the server, n - 1 on the
\* client) unless it is the cap.
C24_BackoffMonotone ==
    [][/\ \A c \in Conns :
            Len(retryTimers'[c]) > Len(retryTimers[c])
            => LET t == retryTimers'[c][Len(retryTimers'[c])]
                   k == t.sched - 1
               IN  /\ t.delay <= RetryMaxDelay
                   /\ k > 0 => \/ t.delay > Min({1000 * Pow2(k - 1), 16000})
                               \/ t.delay = RetryMaxDelay
       /\ (retryTimeoutRef = 0 /\ retryTimeoutRef' # 0)
            => LET n == health'.retryAttempts
               IN  /\ retryTimeoutRef' <= MaxDelay
                   /\ n > 1 => \/ retryTimeoutRef' > Min({2000 * Pow2(n - 2), 32000})
                               \/ retryTimeoutRef' = MaxDelay]_vars

\* the server has scheduled its fifth delay, the cap, and the client its
\* fourth
C24_Witness ==
    /\ \E c \in Conns : \E i \in DOMAIN retryTimers[c] :
          retryTimers[c][i].sched = MaxRetries /\ retryTimers[c][i].delay = RetryMaxDelay
    /\ retryTimeoutRef = 16000

\* C25: retryInfo.attempts of no socket ever exceeds maxRetries; and a
\* retry_connection that finds attempts at maxRetries schedules no
\* connection_retry, emits max_retries_reached (and nothing else) and closes
\* the socket.
C25_RetryBound ==
    /\ [](\A c \in DOMAIN connectionRetries :
             connectionRetries[c].attempts <= MaxRetries)
    /\ [][\A c \in DOMAIN connectionRetries :
             (/\ received'.ev = "retry_connection"
              /\ received'.from = c
              /\ connectionRetries[c].attempts = MaxRetries)
             => /\ Len(retryTimers'[c]) = Len(retryTimers[c])
                /\ Len(out') = 1
                /\ out'[1].ev = "max_retries_reached"
                /\ out'[1].to = c
                /\ out'[1].live
                /\ sockets'[c] = "closed"
                /\ c \in DOMAIN connectionRetries'
                   => connectionRetries'[c].attempts = MaxRetries]_vars

\* a sixth retry_connection has just been refused and the socket closed
C25_Witness ==
    \E c \in Conns :
        /\ received = [ev |-> "retry_connection", from |-> c]
        /\ Emitted("max_retries_reached", c)
        /\ sockets[c] = "closed"

\* C26: a poll that succeeds leaves health.retryAttempts at 0 and lastError
\* null; a handshake that succeeds leaves its socket without an entry in
\* connectionRetries, and a retry_connection that finds none stores attempts 1
\* (one more than 0) and schedules the first delay.
C26_SuccessResets ==
    [][/\ PollDone(TRUE)
            => health'.retryAttempts = 0 /\ health'.lastError = "null"
       /\ \A h \in handshakes \ handshakes' :
            (h.pc = "insert" /\ EmittedNext("authenticated", h.conn))
            => h.conn \notin DOMAIN connectionRetries'
       /\ \A c \in Conns :
            (/\ serverVars' # serverVars
             /\ received' = [ev |-> "retry_connection", from |-> c]
             /\ c \notin DOMAIN connectionRetries)
            => /\ c \in DOMAIN connectionRetries'
               /\ connectionRetries'[c].attempts = 1
               /\ retryTimers'[c][Len(retryTimers'[c])].delay = RetryBaseDelay]_vars

\* a handshake has just succeeded on a socket that had asked for retries, one
\* of them still pending, and a poll has succeeded after failures, a
\* reconnection still pending
C26_Witness ==
    /\ \E c \in Conns :
          /\ Emitted("authenticated", c)
          /\ c \notin DOMAIN connectionRetries
          /\ \E i \in DOMAIN retryTimers[c] : retryTimers[c][i].attempts > 1
    /\ health.retryAttempts = 0
    /\ health.lastError = "null"
    /\ health.connected
    /\ retryTimeoutRef # 0

ShutdownCompletes == shutdown.pc # "done" /\ shutdown'.pc = "done"

\* C29: when shutdown() completes the sweep interval is cancelled, no socket
\* is connected, connectedUsers is empty and no socket has a heartbeat
\* interval or an idle timeout pending.
C29_ShutdownDrains ==
    [][ShutdownCompletes =>
          /\ ~cleanupInterval'
          /\ \A c \in Sockets : sockets'[c] # "open"
          /\ getConnectionCount(connectedUsers') = 0
          /\ \A c \in Sockets : ~heartbeatTimer'[c] /\ idleTimer'[c] = NoTimer]_vars

\* a cleanupConnection(c) that was awaiting its row delete ends in this step:
\* the one of the disconnect handler, of the sweep or of shutdown()
CleanupEnds(c) ==
    \/ \E ok \in BOOLEAN : CleanupDone(c, ok)
    \/ sweep.conn = c /\ \E ok \in BOOLEAN : SweepStaleDone(ok)
    \/ shutdown.conn = c /\ \E ok \in BOOLEAN : ShutdownCleanupDone(ok)

\* what one cleanup of c whose row delete succeeds leaves of c
CleanedUp(users, retries, rows, c) ==
    /\ c \notin DOMAIN users
    /\ c \notin DOMAIN retries
    /\ \A r \in rows : r.socket_id # c

\* cleanups of c awaiting their row delete
CleanupsInFlight(c) ==
    (IF c \in pendingCleanup THEN 1 ELSE 0)
    + (IF sweep.pc = "stale" /\ sweep.conn = c THEN 1 ELSE 0)
    + (IF shutdown.pc = "cleanup" /\ shutdown.conn = c THEN 1 ELSE 0)

\* C30: however many cleanups of one socket overlap, each one that ends
\* leaves of that socket what a single cleanup leaves: nothing in
\* connectedUsers, connectionRetries and user_connections (its delete
\* succeeded), or its entry and its rows as they were (its delete threw); and
\* a cleanup that ends when all is removed already changes nothing.
C30_CleanupIdempotent ==
    [][\A c \in Sockets :
          CleanupEnds(c) =>
             /\ \/ CleanedUp(connectedUsers', connectionRetries', userConnections', c)
                \/ /\ UserIdOf(connectedUsers', c) = UserIdOf(connectedUsers, c)
                   /\ (c \in DOMAIN connectedUsers') = (c \in DOMAIN connectedUsers)
                   /\ {r \in userConnections' : r.socket_id = c}
                         = {r \in userConnections : r.socket_id = c}
             /\ CleanedUp(connectedUsers, connectionRetries, userConnections, c)
                   => CleanedUp(connectedUsers', connectionRetries', userConnections', c)]_vars

\* two cleanups of a socket that had asked for a retry overlapped and the
\* first has removed it: the second is still awaiting its delete
C30_Witness ==
    \E c \in Conns :
        /\ CleanupsInFlight(c) = 1
        /\ sockets[c] = "closed"
        /\ CleanedUp(connectedUsers, connectionRetries, userConnections, c)
        /\ retryTimers[c] # <<>>

\* C31: an answered broadcast request whose recipients are no array or an
\* empty one was rejected, with 'non-empty array' unless the body check spoke
\* first; one with more than 100 recipients was rejected, with 'Maximum 100
\* recipients' likewise, and nothing was sent; one with 1 to 100 recipients
\* was not rejected for its recipients.
C31_RecipientLimit ==
    LET req == broadcast.req
        badList == ~req.isArray \/ req.count = 0
        tooMany == req.isArray /\ req.count > MaxRecipients
    IN  broadcast.pc = "answered" =>
          /\ badList =>
                /\ broadcast.status = 400 /\ broadcast.sent = 0
                /\ req.hasBody => broadcast.error = "non-empty array"
          /\ tooMany =>
                /\ broadcast.status = 400 /\ broadcast.sent = 0
                /\ req.hasBody => broadcast.error = "Maximum 100 recipients"
          /\ ~badList /\ ~tooMany =>
                /\ broadcast.error \notin {"non-empty array",
                                           "Maximum 100 recipients"}
                /\ req.hasBody => broadcast.status = 200 /\ broadcast.sent = req.count

\* a broadcast to exactly 100 recipients went out
C31_Witness ==
    /\ broadcast.pc = "answered"
    /\ broadcast.req.count = MaxRecipients
    /\ broadcast.sent = MaxRecipients

\* the messages of the auth_error events of this step
AuthErrorsNext == {out'[i].msg : i \in {j \in DOMAIN out' : out'[j].ev = "auth_error"}}

\* C32: an `authenticate` is answered by the first check it fails, in the
\* order rate limit, token format, signing secret, verification, userId; one
\* that fails none goes on to the users lookup, and 'User not found' comes
\* from that lookup only.
C32_CheckOrder ==
    [][/\ \A c \in Conns :
            (received'.ev = "authenticate" /\ received'.from = c) =>
               \A token \in Tokens, rateOk \in BOOLEAN :
                  Authenticate(c, token, rateOk) =>
                     LET format == rateOk /\ ~token.formatOk
                         secret == rateOk /\ token.formatOk /\ ~jwtSecret
                         verify == rateOk /\ token.formatOk /\ jwtSecret /\ ~token.verifies
                         subject == rateOk /\ token.formatOk /\ jwtSecret /\ token.verifies
                                    /\ token.userId = 0
                         passes == rateOk /\ token.formatOk /\ jwtSecret /\ token.verifies
                                   /\ token.userId # 0
                     IN  /\ ~rateOk => AuthErrorsNext = {"Too many authentication attempts"}
                         /\ format => AuthErrorsNext = {"Invalid token format"}
                         /\ secret => AuthErrorsNext = {"Authentication service unavailable"}
                         /\ verify => AuthErrorsNext = {"Invalid authentication token"}
                         /\ subject => AuthErrorsNext = {"Invalid user ID in token"}
                         /\ passes => /\ AuthErrorsNext = {}
                                      /\ \E h \in handshakes' \ handshakes :
                                            h.pc = "lookup" /\ h.userId = token.userId
                         /\ ~passes => handshakes' = handshakes
       /\ "User not found" \in AuthErrorsNext
             => \E h \in handshakes \ handshakes' : h.pc = "lookup"]_vars

\* a malformed token has been refused for its format where no signing secret
\* is configured
C32_Witness ==
    /\ ~jwtSecret
    /\ \E i \in DOMAIN out : out[i].msg = "Invalid token format"

\* C33: a socket that was admitted and stays silent is in the end
\* disconnected by the server and out of connectedUsers.
C33_SilentPeerDropped ==
    \A c \in SilentPeers :
        (sockets[c] = "open" /\ Registered(c))
            ~> (sockets[c] = "closed" /\ ~Registered(c))

\* a silent socket was told idle_timeout and is gone
C33_Witness ==
    \E c \in SilentPeers :
        /\ \E i \in DOMAIN out : out[i].ev = "idle_timeout" /\ out[i].to = c
        /\ sockets[c] = "closed"
        /\ ~Registered(c)

\* C34: the connectionRetries entry of a socket goes away, or its attempts
\* go down, only in a step that authenticates the socket or with the socket
\* no longer connected.
C34_RetryEntryKept ==
    [][\A c \in Conns :
          (/\ c \in DOMAIN connectionRetries
           /\ \/ c \notin DOMAIN connectionRetries'
              \/ connectionRetries'[c].attempts < connectionRetries[c].attempts)
          => \/ EmittedNext("authenticated", c)
             \/ sockets'[c] # "open"]_vars

\* the private user rooms a socket is in
UserRoomsOf(c) == {r \in rooms[c] : r[1] = "user"}

\* C35: a connected socket whose entry has a userId is in exactly one user
\* room, the one of that userId.
C35_PrivateRoom ==
    \A c \in Conns :
        (sockets[c] = "open" /\ isAuthenticated(State, c))
            => UserRoomsOf(c) = {UserRoom(connectedUsers[c].userId)}

\* C36: while the hook's token is null (cleanup() has run and no token was
\* supplied since; forceReconnect schedules nothing without a token) no poll
\* interval is active and no reconnection timeout is pending.
C36_QuietAfterCleanup ==
    ~clientToken => pollIntervals = 0 /\ retryTimeouts = 0

\* C37: the cursor lastMessageTimestamp goes down only by the reset of
\* joinRoom or of cleanup.
C37_CursorMonotone ==
    [][lastMessageTimestamp' < lastMessageTimestamp => JoinRoom \/ Cleanup]_vars

\* C38: a connection_retry carries the attempt number that the
\* retry_connection which scheduled its timeout had counted.
C38_RetryEchoesItsAttempt ==
    [][\A c \in Conns :
          (timerRan' = c /\ EmittedNext("connection_retry", c))
          => \E i \in DOMAIN retryTimers[c] :
                /\ retryTimers'[c] = Remove(retryTimers[c], i)
                /\ out'[1].arg = retryTimers[c][i].sched]_vars

\* C39: the row delete that the sweep's orphan loop awaits is for a socket
\* that is not connected, and the rows that go when it returns are rows of
\* sockets that are not connected then.
C39_SweepSparesLive ==
    /\ [](sweep.pc = "delete" => sockets[sweep.conn] # "open")
    /\ [][(sweep.pc = "delete" /\ sweep' # sweep)
             => \A r \in userConnections \ userConnections' :
                   sockets[r.socket_id] # "open"]_vars

\* the orphan loop awaits the delete of a gone socket's row and has the row
\* of a connected socket still to visit, while a handshake awaits its insert
C39_Witness ==
    /\ sweep.pc = "delete"
    /\ sockets[sweep.conn] = "closed"
    /\ \E r \in sweep.rows : sockets[r.socket_id] = "open"
    /\ \E h \in handshakes : h.pc = "insert"

\* C40: a send_message goes on to its insert, and a new_message goes out for
\* it, only when the sender is in the help request's room at that step.
C40_SenderIsMember ==
    [][/\ \A m \in sends' \ sends :
             m.pc = "insert" => HelpRoom(m.helpRequestId) \in rooms[m.conn]
       /\ \A i \in DOMAIN out' :
             out'[i].ev = "new_message"
             => \E m \in Completed :
                   /\ out'[i].arg = m.id
                   /\ HelpRoom(m.helpRequestId) \in rooms[m.conn]]_vars

====
